---- MODULE Spec2Model ----
(***************************************************************************)
(* Model of the osmoscan ledger client (OsmosisClient): the connection     *)
(* lifecycle (initialize / disconnect), address validation and the         *)
(* paginated transaction fetch, as implemented in                          *)
(* src/lib/blockchain/osmosis-client.ts.                                   *)
(*                                                                         *)
(* A JavaScript string is modelled as a sequence of one-character strings, *)
(* so that a regular expression is matched position by position.           *)
(***************************************************************************)
EXTENDS Integers, Sequences, FiniteSets, TLC

----------------------------------------------------------------------------
(* Bounds of the model *)

\* StargateClient.connect invocations over one behaviour
MaxConnects == 2
\* full pages one mocked source serves to one fetchTransactions call
MaxFullPages == 2
\* block heights of the records a mocked source returns: 1..MaxHeight
MaxHeight == 3
\* digits of the integers the amount formatter is tried on, before zeros
MaxDigits == 1

\* amounts of one exported transaction
MaxAmounts == 3

\* characters of the transaction hashes the exporter is tried on
MaxHashLength == 3

\* transactions of one export, beyond the exports of one transaction
MaxRows == 2

\* milliseconds the browser's clock advances over one behaviour
MaxNow == 2

\* setTimeout callbacks of the wallet input pending at one time
MaxTimers == 2

\* clipboard reads of the wallet input pending at one time
MaxPastes == 1

----------------------------------------------------------------------------
(* Values *)

\* this.client = null: no handle (handles are numbered from 1)
NULL == 0

\* an option that is absent from FetchOptions
undefined == 0 - 1

\* the character class [a-z0-9]
LowerAlnum ==
    LET Lower ==
            {"a", "b", "c", "d", "e", "f", "g", "h", "i", "j", "k", "l", "m",
             "n", "o", "p", "q", "r", "s", "t", "u", "v", "w", "x", "y", "z"}
        Digit == {"0", "1", "2", "3", "4", "5", "6", "7", "8", "9"}
    IN  Lower \cup Digit

\* the address the client tests call valid (part_003:32), 41 characters
TestAddress ==
    <<"o", "s", "m", "o", "1", "a", "b", "c", "d", "e", "f", "g", "h", "i",
      "j", "k", "l", "m", "n", "o", "p", "q", "r", "s", "t", "u", "v", "w",
      "x", "y", "z", "0", "1", "2", "3", "4", "5", "6", "7", "8", "9">>

\* a well-formed address: osmo followed by 39 characters of [a-z0-9]
WellFormedAddress == TestAddress \o <<"a", "b">>

\* the malformed address of the client tests (part_003:182)
InvalidAddress ==
    <<"i", "n", "v", "a", "l", "i", "d", "-", "a", "d", "d", "r", "e", "s",
      "s">>

----------------------------------------------------------------------------
(* validateAddress *)

\* the pattern without its end anchor: /^osmo[a-z0-9]{39}/
osmosisAddressRegex_noEndAnchor ==
    [anchorStart |-> TRUE,
     anchorEnd   |-> FALSE,
     items       |-> <<{"o"}, {"s"}, {"m"}, {"o"}>>
                         \o [i \in 1..39 |-> LowerAlnum]]

\* /^osmo[a-z0-9]{39}$/ : anchored at both ends, the four literals, then 39
\* characters of the class
osmosisAddressRegex ==
    [anchorStart |-> TRUE,
     anchorEnd   |-> TRUE,
     items       |-> <<{"o"}, {"s"}, {"m"}, {"o"}>>
                         \o [i \in 1..39 |-> LowerAlnum]]

\* RegExp.prototype.test for a pattern made of single-character classes:
\* some position of str starts a match, the anchors pin that position
RegexTest(regex, str) ==
    LET n == Len(regex.items) IN
    \E start \in 1..(Len(str) + 1) :
        /\ regex.anchorStart => start = 1
        /\ start + n - 1 <= Len(str)
        /\ regex.anchorEnd => start + n - 1 = Len(str)
        /\ \A i \in 1..n : str[start + i - 1] \in regex.items[i]

validateAddress(address) == RegexTest(osmosisAddressRegex, address)

----------------------------------------------------------------------------
(* State *)

VARIABLES
    client,            \* this.client: NULL or the handle connect resolved to
    pendingConnects,   \* initialize() calls suspended on StargateClient.connect
    connectCalls,      \* invocations of StargateClient.connect
    established,       \* handles StargateClient.connect has resolved to
    handleDisconnects, \* per handle: invocations of its disconnect()
    lastCall,          \* the most recent lifecycle call or connect outcome
    fetchPc,           \* position of the fetchTransactions call
    address,           \* argument of the fetchTransactions call
    options,           \* argument of the fetchTransactions call
    limit,             \* local of fetchTransactions
    offset,            \* local of fetchTransactions
    allTransactions,   \* local of fetchTransactions
    requests,          \* searchTx requests the call has issued, in order
    received,          \* pages searchTx has resolved to, in order
    caught,            \* what the catch block of the call has caught
    outcome,           \* how the call settled: returned value or thrown error
    source,            \* what the source answers the call's requests with
    nextHash,          \* next unused record identifier of the source
    call,              \* the getTransactionDetails call, or the latest call of a
                       \* pure method and what it returned
    storage,           \* localStorage item 'osmosis-saved-wallets'
    now,               \* the browser's clock, as new Date() reads it
    walletCall,        \* the latest WalletManager call and how it ended
    inputValue,        \* WalletInput: the value prop, as onChange last set it
    validationState,   \* WalletInput: state of the same name
    errorMessage,      \* WalletInput: state of the same name
    timers,            \* WalletInput: setTimeout callbacks not yet run, in order
    clipboardReads     \* WalletInput: handlePaste calls awaiting readText()

lifecycleVars ==
    <<client, pendingConnects, connectCalls, established, handleDisconnects>>

fetchVars ==
    <<fetchPc, address, options, limit, offset, allTransactions,
      requests, received, caught, outcome, source, nextHash>>

browserVars ==
    <<storage, now, walletCall, inputValue, validationState, errorMessage, timers,
      clipboardReads>>

vars == <<lifecycleVars, lastCall, fetchVars, call, browserVars>>

Handles == 1..MaxConnects

NoOutcome == [kind |-> "none", error |-> "", value |-> <<>>]

Returned(value) == [kind |-> "returned", error |-> "", value |-> value]

Thrown(message) == [kind |-> "thrown", error |-> message, value |-> <<>>]

NoCall == [method |-> "none", argument |-> <<>>, result |-> FALSE]

\* no call is running: no source is answering
NoSource == [height |-> 1, answers |-> <<>>]

NoOptions ==
    [limit |-> undefined, offset |-> undefined,
     startDate |-> undefined, endDate |-> undefined]

Init ==
    /\ client = NULL
    /\ pendingConnects = 0
    /\ connectCalls = 0
    /\ established = 0
    /\ handleDisconnects = [h \in Handles |-> 0]
    /\ lastCall = "constructor"
    /\ fetchPc = "idle"
    /\ address = <<>>
    /\ options = NoOptions
    /\ limit = 0
    /\ offset = 0
    /\ allTransactions = <<>>
    /\ requests = <<>>
    /\ received = <<>>
    /\ caught = "nothing"
    /\ outcome = NoOutcome
    /\ source = NoSource
    /\ nextHash = 1
    /\ call = NoCall
    /\ storage = <<>>
    /\ now = 0
    /\ walletCall = [method |-> "none", address |-> "", label |-> "",
                     threw |-> FALSE]
    /\ inputValue = <<>>
    /\ validationState = "idle"
    /\ errorMessage = ""
    /\ timers = <<>>
    /\ clipboardReads = 0

----------------------------------------------------------------------------
(* Connection lifecycle *)

\* initialize() without the test of this.client: it always connects
initialize_alwaysConnects ==
    /\ lastCall' = "initialize"
    /\ connectCalls < MaxConnects
    /\ connectCalls' = connectCalls + 1
    /\ pendingConnects' = pendingConnects + 1
    /\ UNCHANGED <<client, established, handleDisconnects, fetchVars, call, browserVars>>

\* initialize(), up to its await: connect is invoked only when there is no
\* handle; with a handle the call returns at once
initialize ==
    /\ lastCall' = "initialize"
    /\ IF client = NULL
       THEN /\ connectCalls < MaxConnects
            /\ connectCalls' = connectCalls + 1
            /\ pendingConnects' = pendingConnects + 1
       ELSE UNCHANGED <<connectCalls, pendingConnects>>
    /\ UNCHANGED <<client, established, handleDisconnects, fetchVars, call, browserVars>>

\* StargateClient.connect resolves to a new handle: the suspended
\* initialize() assigns it to this.client, whatever this.client holds by then
connectResolved ==
    /\ pendingConnects > 0
    /\ pendingConnects' = pendingConnects - 1
    /\ established' = established + 1
    /\ client' = established + 1
    /\ lastCall' = "connect"
    /\ UNCHANGED <<connectCalls, handleDisconnects, fetchVars, call, browserVars>>

\* StargateClient.connect rejects: the suspended initialize() rejects and
\* this.client is left as it is
connectRejected ==
    /\ pendingConnects > 0
    /\ pendingConnects' = pendingConnects - 1
    /\ lastCall' = "connect"
    /\ UNCHANGED <<client, connectCalls, established, handleDisconnects,
                   fetchVars, call, browserVars>>

\* disconnect() that does not reset this.client to null
disconnect_keepsHandle ==
    /\ lastCall' = "disconnect"
    /\ IF client # NULL
       THEN handleDisconnects' = [handleDisconnects EXCEPT ![client] = @ + 1]
       ELSE UNCHANGED handleDisconnects
    /\ UNCHANGED <<client, pendingConnects, connectCalls, established,
                   fetchVars, call, browserVars>>

\* disconnect(): with a handle, the handle's disconnect() is invoked and the
\* handle is dropped; without one nothing happens
disconnect ==
    /\ lastCall' = "disconnect"
    /\ IF client # NULL
       THEN /\ handleDisconnects' =
                   [handleDisconnects EXCEPT ![client] = @ + 1]
            /\ client' = NULL
       ELSE UNCHANGED <<client, handleDisconnects>>
    /\ UNCHANGED <<pendingConnects, connectCalls, established, fetchVars,
                   call, browserVars>>

----------------------------------------------------------------------------
(* fetchTransactions *)

\* options?.limit || 100
DefaultLimit == 100

\* new Date(tx.height * 5000)
BlockInterval == 5000

\* the options a caller passes: a small page size or the documented 100,
\* an offset that is no multiple of the page size, and date bounds that fall
\* on the timestamp of a block in the middle of the height range
LimitChoices == {undefined, 3, DefaultLimit}

OffsetChoices == {undefined, 150}

DateChoices == {undefined, 2 * BlockInterval}

\* every page size with or without an offset, and the small page size with
\* date bounds
OptionChoices ==
    [limit : LimitChoices, offset : OffsetChoices,
     startDate : {undefined}, endDate : {undefined}]
        \cup [limit : {3}, offset : {undefined},
              startDate : DateChoices, endDate : DateChoices]

\* date bounds without options.limit
DateOptions ==
    [limit : {undefined}, offset : {undefined},
     startDate : DateChoices, endDate : DateChoices]

AddressChoices == {TestAddress, WellFormedAddress, InvalidAddress}

\* the record of the source with identifier hash: the heights of successive
\* records cycle through 1..MaxHeight from the height of the first record,
\* every second record is a failed transaction (code 5, as in part_003:270)
RawTx(hash, height) ==
    [hash   |-> hash,
     height |-> ((height + hash - 2) % MaxHeight) + 1,
     code   |-> IF hash % 2 = 0 THEN 5 ELSE 0]

\* a page of the source: the records first .. first + length - 1
Page(length, first, height) ==
    [i \in 1..length |-> RawTx(first + i - 1, height)]

\* page lengths worth telling apart for a page size: empty, short, full
PageLengths(perPage) == {0, 2, perPage}

\* one answer of the source: a page of some length, or a failure
PageAnswer(length) == [kind |-> "page", length |-> length]

FinalAnswers(perPage) ==
    {PageAnswer(n) : n \in PageLengths(perPage) \ {perPage}}
        \cup {[kind |-> "reject", length |-> 0]}

\* options?.limit || 100 : undefined and 0 are falsy
PageSize(opts) == IF opts.limit > 0 THEN opts.limit ELSE DefaultLimit

\* the heights a source's first record is given: the height of a record
\* is read by the date checks only
FirstHeights(opts) ==
    IF opts.startDate = undefined /\ opts.endDate = undefined
    THEN {1}
    ELSE 1..MaxHeight

\* the sources a call is run against: up to MaxFullPages full pages, then
\* one partial or empty page or a failure; height is the height of the
\* source's first record
Sources(opts) ==
    {[height  |-> h,
      answers |-> [i \in 1..n |-> PageAnswer(PageSize(opts))] \o <<final>>] :
         n \in 0..MaxFullPages,
         final \in FinalAnswers(PageSize(opts)),
         h \in FirstHeights(opts)}

\* parseTransaction with a status that is pending for a nonzero code
parseTransaction_pending(tx) ==
    [hash      |-> tx.hash,
     timestamp |-> tx.height * BlockInterval,
     status    |-> IF tx.code = 0 THEN "success" ELSE "pending"]

\* parseTransaction: the fields of the normalized transaction that do not
\* come from the message parser
parseTransaction(tx) ==
    [hash      |-> tx.hash,
     timestamp |-> tx.height * BlockInterval,
     status    |-> IF tx.code = 0 THEN "success" ELSE "failed"]

\* date checks that also drop a record dated exactly at a bound
InDateRange_exclusive(parsedTx, opts) ==
    /\ ~(opts.startDate # undefined /\ parsedTx.timestamp <= opts.startDate)
    /\ ~(opts.endDate # undefined /\ parsedTx.timestamp >= opts.endDate)

\* the two date checks of the record loop: TRUE when neither says continue
InDateRange(parsedTx, opts) ==
    /\ ~(opts.startDate # undefined /\ parsedTx.timestamp < opts.startDate)
    /\ ~(opts.endDate # undefined /\ parsedTx.timestamp > opts.endDate)

\* the record loop over one page: parse, filter, push
PushPage(all, txs, opts) ==
    all \o SelectSeq([i \in 1..Len(txs) |-> parseTransaction(txs[i])],
                     LAMBDA parsedTx : InDateRange(parsedTx, opts))

\* options?.offset || 0
StartOffset(opts) == IF opts.offset > 0 THEN opts.offset ELSE 0

\* Math.floor(offset / limit) + 1
PageNumber(off, lim) == (off \div lim) + 1

\* hasMore with the limit test on the page size instead of options.limit
HasMore_localLimit(txs, lim, all, opts) ==
    /\ ~(Len(txs) < lim)
    /\ ~(Len(all) >= lim)

\* hasMore without the short-page test
HasMore_ignoresShortPage(txs, lim, all, opts) ==
    ~(opts.limit > 0 /\ Len(all) >= opts.limit)

\* hasMore after a non-empty page: a short page ends the pagination, and so
\* does a requested limit once that many transactions have been accumulated
HasMore(txs, lim, all, opts) ==
    /\ ~(Len(txs) < lim)
    /\ ~(opts.limit > 0 /\ Len(all) >= opts.limit)

\* an offset that is not advanced after a full page
NextOffset_notAdvanced(txs, lim, off) == off

\* offset after a non-empty page
NextOffset(txs, lim, off) == IF Len(txs) < lim THEN off ELSE off + lim

SearchTxRequest(handle, off, lim) ==
    [handle |-> handle, page |-> PageNumber(off, lim), per_page |-> lim]

\* return allTransactions
ReturnTransactions(all) ==
    /\ fetchPc' = "settled"
    /\ outcome' = Returned(all)

\* fetchTransactions with the address checked before the handle
fetchTransactions_addressFirst(addr, opts, src) ==
    /\ fetchPc = "idle"
    /\ address' = addr
    /\ options' = opts
    /\ IF ~validateAddress(addr)
       THEN /\ fetchPc' = "settled"
            /\ outcome' = Thrown("Invalid Osmosis address format")
            /\ UNCHANGED <<limit, offset, requests, source>>
       ELSE IF client = NULL
       THEN /\ fetchPc' = "settled"
            /\ outcome' =
                   Thrown("Client not initialized. Call initialize() first.")
            /\ UNCHANGED <<limit, offset, requests, source>>
       ELSE /\ fetchPc' = "searchTx"
            /\ limit' = PageSize(opts)
            /\ offset' = StartOffset(opts)
            /\ requests' =
                   <<SearchTxRequest(client, StartOffset(opts), PageSize(opts))>>
            /\ source' = src
            /\ UNCHANGED outcome
    /\ UNCHANGED <<allTransactions, received, caught, nextHash, lastCall,
                   lifecycleVars, call, browserVars>>

\* fetchTransactions(address, options), up to its first await: the two
\* precondition checks, the locals, and the first searchTx request; src is
\* what the source will answer the requests of this call with
fetchTransactions(addr, opts, src) ==
    /\ fetchPc = "idle"
    /\ address' = addr
    /\ options' = opts
    /\ IF client = NULL
       THEN /\ fetchPc' = "settled"
            /\ outcome' =
                   Thrown("Client not initialized. Call initialize() first.")
            /\ UNCHANGED <<limit, offset, requests, source>>
       ELSE IF ~validateAddress(addr)
       THEN /\ fetchPc' = "settled"
            /\ outcome' = Thrown("Invalid Osmosis address format")
            /\ UNCHANGED <<limit, offset, requests, source>>
       ELSE /\ fetchPc' = "searchTx"
            /\ limit' = PageSize(opts)
            /\ offset' = StartOffset(opts)
            /\ requests' =
                   <<SearchTxRequest(client, StartOffset(opts), PageSize(opts))>>
            /\ source' = src
            /\ UNCHANGED outcome
    /\ UNCHANGED <<allTransactions, received, caught, nextHash, lastCall,
                   lifecycleVars, call, browserVars>>

\* the answer of the source to the pending request
Answer == source.answers[Len(requests)]

\* the pending searchTx has resolved to the page txs: the rest of the loop
\* body, the loop test, and then the next searchTx request or the return
searchTxResolved(txs) ==
    /\ received' = Append(received, txs)
    /\ nextHash' = nextHash + Len(txs)
    /\ IF Len(txs) = 0
       THEN /\ ReturnTransactions(allTransactions)
            /\ UNCHANGED <<allTransactions, offset, requests, caught>>
       ELSE LET all == PushPage(allTransactions, txs, options)
                off == NextOffset(txs, limit, offset)
            IN  /\ allTransactions' = all
                /\ offset' = off
                /\ IF ~HasMore(txs, limit, all, options)
                   THEN /\ ReturnTransactions(all)
                        /\ UNCHANGED <<requests, caught>>
                   ELSE IF client = NULL
                   THEN \* this.client.searchTx on null throws inside the try
                        /\ caught' = "TypeError"
                        /\ ReturnTransactions(all)
                        /\ UNCHANGED requests
                   ELSE /\ requests' =
                               Append(requests,
                                      SearchTxRequest(client, off, limit))
                        /\ UNCHANGED <<fetchPc, outcome, caught>>
    /\ UNCHANGED <<address, options, limit, source, lastCall,
                   lifecycleVars, call, browserVars>>

\* a catch block that rethrows instead of returning what the call has
searchTxRejected_rethrows ==
    /\ fetchPc = "searchTx"
    /\ Len(requests) <= Len(source.answers)
    /\ Answer.kind = "reject"
    /\ caught' = "searchTx"
    /\ fetchPc' = "settled"
    /\ outcome' = Thrown("searchTx failed")
    /\ UNCHANGED <<address, options, limit, offset,
                   allTransactions, requests, received, source, nextHash,
                   lastCall, lifecycleVars, call, browserVars>>

\* a catch block that leaves hasMore set: the loop asks for the page again
searchTxRejected_retries ==
    /\ fetchPc = "searchTx"
    /\ Len(requests) <= Len(source.answers)
    /\ Answer.kind = "reject"
    /\ caught' = "searchTx"
    /\ requests' = Append(requests, requests[Len(requests)])
    /\ UNCHANGED <<fetchPc, outcome, address, options, limit, offset,
                   allTransactions, received, source, nextHash,
                   lastCall, lifecycleVars, call, browserVars>>

\* the pending searchTx rejects: the catch block logs, clears hasMore, and
\* the call returns what it has
searchTxRejected ==
    /\ fetchPc = "searchTx"
    /\ Len(requests) <= Len(source.answers)
    /\ Answer.kind = "reject"
    /\ caught' = "searchTx"
    /\ ReturnTransactions(allTransactions)
    /\ UNCHANGED <<address, options, limit, offset,
                   allTransactions, requests, received, source, nextHash,
                   lastCall, lifecycleVars, call, browserVars>>

\* the caller has taken the settled call's result: the next call may start
fetchSettled ==
    /\ fetchPc = "settled"
    /\ fetchPc' = "idle"
    /\ address' = <<>>
    /\ options' = NoOptions
    /\ limit' = 0
    /\ offset' = 0
    /\ allTransactions' = <<>>
    /\ requests' = <<>>
    /\ received' = <<>>
    /\ caught' = "nothing"
    /\ outcome' = NoOutcome
    /\ source' = NoSource
    /\ nextHash' = 1
    /\ UNCHANGED <<lastCall, lifecycleVars, call, browserVars>>

----------------------------------------------------------------------------
(* JavaScript strings and BigInt *)

\* a string is a sequence of one-character strings; a BigInt is the sequence
\* of its decimal digits, most significant first, without leading zeros

DigitChars == <<"0", "1", "2", "3", "4", "5", "6", "7", "8", "9">>

LowerChars ==
    <<"a", "b", "c", "d", "e", "f", "g", "h", "i", "j", "k", "l", "m",
      "n", "o", "p", "q", "r", "s", "t", "u", "v", "w", "x", "y", "z">>

UpperChars ==
    <<"A", "B", "C", "D", "E", "F", "G", "H", "I", "J", "K", "L", "M",
      "N", "O", "P", "Q", "R", "S", "T", "U", "V", "W", "X", "Y", "Z">>

\* String.prototype.startsWith
startsWith(str, prefix) ==
    /\ Len(prefix) <= Len(str)
    /\ SubSeq(str, 1, Len(prefix)) = prefix

\* String.prototype.includes
includes(str, pattern) ==
    \E start \in 1..(Len(str) - Len(pattern) + 1) :
        SubSeq(str, start, start + Len(pattern) - 1) = pattern

\* String.prototype.slice(from, to) for 0 <= from <= to
slice(str, from, to) ==
    SubSeq(str, from + 1, IF to < Len(str) THEN to ELSE Len(str))

\* String.prototype.toUpperCase, on the characters the model uses
toUpperCase(str) ==
    [i \in 1..Len(str) |->
        IF \E k \in 1..26 : LowerChars[k] = str[i]
        THEN UpperChars[CHOOSE k \in 1..26 : LowerChars[k] = str[i]]
        ELSE str[i]]

\* String.prototype.padStart(length, '0')
padStart(str, length) ==
    IF Len(str) >= length THEN str
    ELSE [i \in 1..(length - Len(str)) |-> "0"] \o str

\* String.prototype.padEnd(length, '0')
padEnd(str, length) ==
    IF Len(str) >= length THEN str
    ELSE str \o [i \in 1..(length - Len(str)) |-> "0"]

\* str.replace(/0+$/, ''): str up to its last character that is not 0
TrimTrailingZeros(str) ==
    SubSeq(str, 1, Len(str) - Cardinality({i \in 1..Len(str) :
                                             \A j \in i..Len(str) : str[j] = "0"}))

\* String.prototype.split('.'): the parts between the dots
RECURSIVE split(_)
split(str) ==
    IF \E i \in 1..Len(str) : str[i] = "."
    THEN LET dot == CHOOSE i \in 1..Len(str) :
                        /\ str[i] = "."
                        /\ \A j \in 1..(i - 1) : str[j] # "."
         IN  <<SubSeq(str, 1, dot - 1)>>
                 \o split(SubSeq(str, dot + 1, Len(str)))
    ELSE <<str>>

\* digits from its first digit that is not 0, or from its last digit
StripLeadingZeros(digits) ==
    SubSeq(digits,
           1 + Cardinality({i \in 1..(Len(digits) - 1) :
                              \A j \in 1..i : digits[j] = 0}),
           Len(digits))

\* BigInt(str) for a string of decimal digits; BigInt('') is 0n
BigInt(str) ==
    IF str = <<>> THEN <<0>>
    ELSE StripLeadingZeros(
             [i \in 1..Len(str) |->
                 (CHOOSE k \in 1..10 : DigitChars[k] = str[i]) - 1])

\* BigInt.prototype.toString
BigIntToString(n) == [i \in 1..Len(n) |-> DigitChars[n[i] + 1]]

\* a < b
BigLess(a, b) ==
    \/ Len(a) < Len(b)
    \/ /\ Len(a) = Len(b)
       /\ \E i \in 1..Len(a) :
              /\ a[i] < b[i]
              /\ \A j \in 1..(i - 1) : a[j] = b[j]

\* the digit of n that weighs 10^k, 0 beyond its length
DigitAt(n, k) == IF k < Len(n) THEN n[Len(n) - k] ELSE 0

\* a + b; the carry into the digit that weighs 10^k: some lower digit
\* overflows and every digit between carries it on
BigAdd(a, b) ==
    LET n == (IF Len(a) > Len(b) THEN Len(a) ELSE Len(b)) + 1
        CarryInto(k) ==
            IF \E j \in 0..(k - 1) :
                   /\ DigitAt(a, j) + DigitAt(b, j) >= 10
                   /\ \A m \in (j + 1)..(k - 1) :
                          DigitAt(a, m) + DigitAt(b, m) = 9
            THEN 1 ELSE 0
    IN  StripLeadingZeros(
            [i \in 1..n |->
                (DigitAt(a, n - i) + DigitAt(b, n - i) + CarryInto(n - i))
                    % 10])

\* a - b, for a >= b; the borrow taken from the digit that weighs 10^k: some
\* lower digit falls short and every digit between hands it on
BigSub(a, b) ==
    LET BorrowFrom(k) ==
            IF \E j \in 0..(k - 1) :
                   /\ DigitAt(a, j) < DigitAt(b, j)
                   /\ \A m \in (j + 1)..(k - 1) :
                          DigitAt(a, m) = DigitAt(b, m)
            THEN 1 ELSE 0
    IN  StripLeadingZeros(
            [i \in 1..Len(a) |->
                (DigitAt(a, Len(a) - i) - DigitAt(b, Len(a) - i)
                     - BorrowFrom(Len(a) - i) + 10) % 10])

RECURSIVE BigTimesDigit(_, _)
\* a * d for a digit d
BigTimesDigit(a, d) ==
    IF d = 0 THEN <<0>>
    ELSE IF d = 1 THEN a
    ELSE BigAdd(BigTimesDigit(a, d \div 2), BigTimesDigit(a, d - d \div 2))

RECURSIVE BigMul(_, _)
\* a * b, b taken by halves
BigMul(a, b) ==
    IF Len(b) = 1 THEN BigTimesDigit(a, b[1])
    ELSE LET half == Len(b) \div 2
             high == BigMul(a, SubSeq(b, 1, Len(b) - half))
             low  == BigMul(a, SubSeq(b, Len(b) - half + 1, Len(b)))
         IN  BigAdd(IF high = <<0>> THEN high
                    ELSE high \o [i \in 1..half |-> 0],
                    low)

RECURSIVE TimesIn(_, _)
\* how many times b goes into r, for r < 10 * b, and what is left of r
TimesIn(r, b) ==
    IF BigLess(r, b) THEN [quot |-> <<0>>, rem |-> r]
    ELSE LET less == TimesIn(BigSub(r, b), b)
         IN  [quot |-> <<less.quot[1] + 1>>, rem |-> less.rem]

RECURSIVE LongDivision(_, _, _)
\* long division of the digits that follow a remainder r < b: the quotient
\* digit for each of them and the remainder left, the digits taken by halves
LongDivision(r, digits, b) ==
    IF Len(digits) = 1
    THEN TimesIn(StripLeadingZeros(r \o digits), b)
    ELSE LET half == Len(digits) \div 2
             first == LongDivision(r, SubSeq(digits, 1, half), b)
             rest == LongDivision(first.rem,
                                  SubSeq(digits, half + 1, Len(digits)), b)
         IN  [quot |-> first.quot \o rest.quot, rem |-> rest.rem]

\* the BigInt operators / and %: [quot, rem]
BigDivMod(a, b) ==
    LET division == LongDivision(<<0>>, a, b)
    IN  [quot |-> StripLeadingZeros(division.quot), rem |-> division.rem]

----------------------------------------------------------------------------
(* TransactionParser: amounts *)

\* the string 'unknown'
Unknown == <<"u", "n", "k", "n", "o", "w", "n">>

Uosmo == <<"u", "o", "s", "m", "o">>

Uion == <<"u", "i", "o", "n">>

Uatom == <<"u", "a", "t", "o", "m">>

IbcPrefix == <<"i", "b", "c", "/">>

\* BigInt(10 ** 6)
Million == <<1, 0, 0, 0, 0, 0, 0>>

\* the body shared by formatAmount and fromBaseUnits: integer part, and the
\* fractional part padded to decimals digits with its trailing zeros removed
DecimalString(numValue, divisor, decimals) ==
    LET division == BigDivMod(numValue, divisor)
        integerPart == division.quot
        fractionalPart == division.rem
        fractionalStr == padStart(BigIntToString(fractionalPart), decimals)
        trimmedFractional == TrimTrailingZeros(fractionalStr)
    IN  IF fractionalPart = <<0>>
        THEN BigIntToString(integerPart)
        ELSE BigIntToString(integerPart) \o <<".">> \o trimmedFractional

\* knownDecimals[denom] || 6, after the ibc/ test: 6 for every denomination
getDecimals(denom) ==
    IF startsWith(denom, IbcPrefix) THEN 6
    ELSE IF denom \in {Uosmo, Uion, Uatom} THEN 6
    ELSE 6

\* formatAmount(value, denom) for a string denom
formatAmount(value, denom) ==
    DecimalString(BigInt(value), Million, getDecimals(denom))

\* denomToSymbol(denom)
denomToSymbol(denom) ==
    IF denom = Uosmo THEN <<"O", "S", "M", "O">>
    ELSE IF denom = Uion THEN <<"I", "O", "N">>
    ELSE IF denom = Uatom THEN <<"A", "T", "O", "M">>
    ELSE IF startsWith(denom, IbcPrefix)
    THEN <<"I", "B", "C", "/">> \o toUpperCase(slice(denom, 4, 10))
    ELSE IF startsWith(denom, <<"u">>)
    THEN toUpperCase(slice(denom, 1, Len(denom)))
    ELSE toUpperCase(denom)

\* a field of a ledger object that may be missing: <<>> when it is, <<v>> when
\* it holds v
Missing == <<>>

Some(v) == <<v>>

\* value || fallback for a string field: a missing field and '' are falsy
OrElse(field, fallback) ==
    IF field = Missing THEN fallback
    ELSE IF field[1] = <<>> THEN fallback
    ELSE field[1]

\* the amount parseAmount returns for a missing amount
NoAmount ==
    [value |-> <<"0">>, denom |-> Unknown,
     symbol |-> <<"U", "N", "K", "N", "O", "W", "N">>]

\* parseAmount(amount): amount is a field holding { denom, amount }
parseAmount(amount) ==
    IF amount = Missing THEN NoAmount
    ELSE LET denom == OrElse(amount[1].denom, Unknown)
             value == OrElse(amount[1].amount, <<"0">>)
         IN  [value  |-> formatAmount(value, denom),
              denom  |-> denom,
              symbol |-> denomToSymbol(denom)]

\* parseAmounts(amounts): amounts is an array of { denom, amount }
parseAmounts(amounts) ==
    [i \in 1..Len(amounts) |-> parseAmount(Some(amounts[i]))]

----------------------------------------------------------------------------
(* TransactionParser: messages *)

\* the substrings parseMessages looks for in the type of the first message

MsgSwapExactAmountIn ==
    <<"M", "s", "g", "S", "w", "a", "p", "E", "x", "a", "c", "t", "A", "m",
      "o", "u", "n", "t", "I", "n">>

MsgSwapExactAmountOut ==
    <<"M", "s", "g", "S", "w", "a", "p", "E", "x", "a", "c", "t", "A", "m",
      "o", "u", "n", "t", "O", "u", "t">>

\* the name of the operation without Msg
MsgSend_withoutMsg == <<"S", "e", "n", "d">>

MsgSend == <<"M", "s", "g", "S", "e", "n", "d">>

MsgDelegate == <<"M", "s", "g", "D", "e", "l", "e", "g", "a", "t", "e">>

MsgUndelegate ==
    <<"M", "s", "g", "U", "n", "d", "e", "l", "e", "g", "a", "t", "e">>

MsgWithdrawDelegatorReward ==
    <<"M", "s", "g", "W", "i", "t", "h", "d", "r", "a", "w", "D", "e", "l",
      "e", "g", "a", "t", "o", "r", "R", "e", "w", "a", "r", "d">>

MsgJoinPool == <<"M", "s", "g", "J", "o", "i", "n", "P", "o", "o", "l">>

JoinPool == <<"J", "o", "i", "n", "P", "o", "o", "l">>

MsgExitPool == <<"M", "s", "g", "E", "x", "i", "t", "P", "o", "o", "l">>

ExitPool == <<"E", "x", "i", "t", "P", "o", "o", "l">>

MsgVote == <<"M", "s", "g", "V", "o", "t", "e">>

\* what parseMessages gives back: a ParsedTransaction, or the TypeError it
\* throws
Parsed(type, amounts) ==
    [kind |-> "returned", error |-> "", type |-> type, amounts |-> amounts]

TypeError ==
    [kind |-> "thrown", error |-> "TypeError", type |-> "", amounts |-> <<>>]

\* the amount of a swap that is given as a bare number and the denomination
\* of a route: formatAmount is handed the route's denomination as it is, and
\* getDecimals calls startsWith on it
RouteAmount(value, denom) ==
    [value  |-> formatAmount(value, denom[1]),
     denom  |-> OrElse(denom, Unknown),
     symbol |-> denomToSymbol(OrElse(denom, Unknown))]

\* a string field that is present and not ''
Truthy(field) == field # Missing /\ field[1] # <<>>

parseMsgSwapExactAmountIn(msg) ==
    LET tokenIn ==
            IF msg.tokenIn # Missing THEN <<parseAmount(msg.tokenIn)>>
            ELSE <<>>
        hasTokenOut ==
            /\ Truthy(msg.tokenOutMinAmount)
            /\ msg.routes # Missing
            /\ Len(msg.routes[1]) > 0
        lastRoute == msg.routes[1][Len(msg.routes[1])]
    IN  IF ~hasTokenOut THEN Parsed("swap", tokenIn)
        ELSE IF lastRoute.tokenOutDenom = Missing THEN TypeError
        ELSE Parsed("swap",
                    Append(tokenIn,
                           RouteAmount(msg.tokenOutMinAmount[1],
                                       lastRoute.tokenOutDenom)))

parseMsgSwapExactAmountOut(msg) ==
    LET hasTokenIn ==
            /\ Truthy(msg.tokenInMaxAmount)
            /\ msg.routes # Missing
            /\ Len(msg.routes[1]) > 0
        firstRoute == msg.routes[1][1]
        tokenOut ==
            IF msg.tokenOut # Missing THEN <<parseAmount(msg.tokenOut)>>
            ELSE <<>>
    IN  IF ~hasTokenIn THEN Parsed("swap", tokenOut)
        ELSE IF firstRoute.tokenInDenom = Missing THEN TypeError
        ELSE Parsed("swap",
                    <<RouteAmount(msg.tokenInMaxAmount[1],
                                  firstRoute.tokenInDenom)>> \o tokenOut)

\* msg.amount, msg.tokensIn and msg.tokensOut hold [array, items]: an array
\* of coins, or one coin object (items of length 1)
CoinList(field) ==
    IF field = Missing THEN <<>>
    ELSE IF ~field[1].array THEN <<>>
    ELSE parseAmounts(field[1].items)

\* msg.amount ? [parseAmount(msg.amount)] : []  (an array has no denom and
\* no amount of its own)
SingleCoin(field) ==
    IF field = Missing THEN <<>>
    ELSE IF field[1].array
    THEN <<parseAmount(Some([denom |-> Missing, amount |-> Missing]))>>
    ELSE <<parseAmount(Some(field[1].items[1]))>>

parseMsgSend(msg, addr) == Parsed("transfer", CoinList(msg.amount))

parseMsgDelegate(msg) == Parsed("stake", SingleCoin(msg.amount))

parseMsgUndelegate(msg) == Parsed("unstake", SingleCoin(msg.amount))

parseMsgWithdrawDelegatorReward(msg) == Parsed("claim_rewards", <<>>)

parseMsgJoinPool(msg) == Parsed("provide_liquidity", CoinList(msg.tokensIn))

parseMsgExitPool(msg) == Parsed("remove_liquidity", CoinList(msg.tokensOut))

parseMsgVote(msg) == Parsed("vote", <<>>)

\* a parser that classifies by the last message of the list
firstMsg_lastOfList(messages) == messages[1][Len(messages[1])]

\* const firstMsg = messages[0]
firstMsg(messages) == messages[1][1]

\* parseMessages(messages, address): messages is Missing for null
parseMessages(messages, addr) ==
    IF messages = Missing THEN Parsed("unknown", <<>>)
    ELSE IF Len(messages[1]) = 0 THEN Parsed("unknown", <<>>)
    ELSE LET first == firstMsg(messages)
             msgType == OrElse(first.type, OrElse(first.typeUrl, <<>>))
         IN  IF includes(msgType, MsgSwapExactAmountIn)
             THEN parseMsgSwapExactAmountIn(first)
             ELSE IF includes(msgType, MsgSwapExactAmountOut)
             THEN parseMsgSwapExactAmountOut(first)
             ELSE IF includes(msgType, MsgSend)
             THEN parseMsgSend(first, addr)
             ELSE IF includes(msgType, MsgDelegate)
             THEN parseMsgDelegate(first)
             ELSE IF includes(msgType, MsgUndelegate)
             THEN parseMsgUndelegate(first)
             ELSE IF includes(msgType, MsgWithdrawDelegatorReward)
             THEN parseMsgWithdrawDelegatorReward(first)
             ELSE IF includes(msgType, MsgJoinPool)
                        \/ includes(msgType, JoinPool)
             THEN parseMsgJoinPool(first)
             ELSE IF includes(msgType, MsgExitPool)
                        \/ includes(msgType, ExitPool)
             THEN parseMsgExitPool(first)
             ELSE IF includes(msgType, MsgVote)
             THEN parseMsgVote(first)
             ELSE Parsed("unknown", <<>>)

----------------------------------------------------------------------------
(* validateAddress on its own: the strings it is called with *)

\* characters put in place of, before or after the characters of a
\* well-formed address
ProbeChars == {"a", "z", "0", "9", "A", "Z", "-", "_", "!", "@", ".", " ", "\n"}

\* CosmosAddress is cosmos1abcdefghijklmnopqrstuvwxyz0123456789
\* (part_003:44): wrong prefix, 43 characters
AddressInputs ==
    LET CosmosAddress ==
            <<"c", "o", "s", "m", "o", "s">> \o SubSeq(TestAddress, 5, 41)
    IN  {[WellFormedAddress EXCEPT ![i] = c] : i \in 1..43, c \in ProbeChars}
            \cup {SubSeq(WellFormedAddress, 1, n) : n \in 0..43}
            \cup {SubSeq(WellFormedAddress, n, 43) : n \in 1..43}
            \cup {WellFormedAddress \o <<c>> : c \in ProbeChars}
            \cup {<<c>> \o WellFormedAddress : c \in ProbeChars}
            \cup {[i \in 1..n |-> " "] : n \in 1..43}
            \cup {TestAddress, InvalidAddress, CosmosAddress}

\* client.validateAddress(str)
validateAddressCall(str) ==
    /\ call' = [method |-> "validateAddress", argument |-> str,
                result |-> validateAddress(str)]
    /\ UNCHANGED <<lifecycleVars, lastCall, fetchVars, browserVars>>

NextValidate == \E str \in AddressInputs : validateAddressCall(str)

SpecValidate == Init /\ [][NextValidate]_vars

----------------------------------------------------------------------------
(* TransactionParser on its own: the messages it is called with *)

\* the type identifiers of the parser tests (osmosis-client.ts:274-444)

TypeSwapIn ==
    <<"/", "o", "s", "m", "o", "s", "i", "s", ".", "g", "a", "m", "m", ".",
      "v", "1", "b", "e", "t", "a", "1", ".", "M", "s", "g", "S", "w", "a",
      "p", "E", "x", "a", "c", "t", "A", "m", "o", "u", "n", "t", "I", "n">>

TypeSend ==
    <<"/", "c", "o", "s", "m", "o", "s", ".", "b", "a", "n", "k", ".", "v",
      "1", "b", "e", "t", "a", "1", ".", "M", "s", "g", "S", "e", "n", "d">>

TypeDelegate ==
    <<"/", "c", "o", "s", "m", "o", "s", ".", "s", "t", "a", "k", "i", "n",
      "g", ".", "v", "1", "b", "e", "t", "a", "1", ".", "M", "s", "g", "D",
      "e", "l", "e", "g", "a", "t", "e">>

TypeVote ==
    <<"/", "c", "o", "s", "m", "o", "s", ".", "g", "o", "v", ".", "v", "1",
      "b", "e", "t", "a", "1", ".", "M", "s", "g", "V", "o", "t", "e">>

\* identifiers of other ledger messages: they hold the name of an operation
\* after a longer Msg name, without Msg, or two names

TypeVoteThenSend ==
    <<"/", "t", "e", "s", "t", ".", "M", "s", "g", "V", "o", "t", "e", ".",
      "M", "s", "g", "S", "e", "n", "d">>

\* the type identifiers of the parser tests and identifiers of other ledger
\* messages
TypeChoices ==
    {TypeSwapIn, TypeSend, TypeDelegate, TypeVote, TypeVoteThenSend,
     <<"/", "o", "s", "m", "o", "s", "i", "s", ".", "g", "a", "m", "m", ".",
       "v", "1", "b", "e", "t", "a", "1", ".", "M", "s", "g", "S", "w", "a",
       "p", "E", "x", "a", "c", "t", "A", "m", "o", "u", "n", "t", "O", "u",
       "t">>,
     <<"/", "c", "o", "s", "m", "o", "s", ".", "s", "t", "a", "k", "i", "n",
       "g", ".", "v", "1", "b", "e", "t", "a", "1", ".", "M", "s", "g", "U",
       "n", "d", "e", "l", "e", "g", "a", "t", "e">>,
     <<"/", "c", "o", "s", "m", "o", "s", ".", "d", "i", "s", "t", "r", "i",
       "b", "u", "t", "i", "o", "n", ".", "v", "1", "b", "e", "t", "a", "1",
       ".", "M", "s", "g", "W", "i", "t", "h", "d", "r", "a", "w", "D", "e",
       "l", "e", "g", "a", "t", "o", "r", "R", "e", "w", "a", "r", "d">>,
     <<"/", "o", "s", "m", "o", "s", "i", "s", ".", "g", "a", "m", "m", ".",
       "v", "1", "b", "e", "t", "a", "1", ".", "M", "s", "g", "J", "o", "i",
       "n", "P", "o", "o", "l">>,
     <<"/", "o", "s", "m", "o", "s", "i", "s", ".", "g", "a", "m", "m", ".",
       "v", "1", "b", "e", "t", "a", "1", ".", "M", "s", "g", "E", "x", "i",
       "t", "P", "o", "o", "l">>,
     <<"/", "u", "n", "k", "n", "o", "w", "n", ".", "m", "o", "d", "u", "l",
       "e", ".", "M", "s", "g", "U", "n", "k", "n", "o", "w", "n">>,
     <<"/", "c", "o", "s", "m", "o", "s", ".", "b", "a", "n", "k", ".", "v",
       "1", "b", "e", "t", "a", "1", ".", "M", "s", "g", "M", "u", "l", "t",
       "i", "S", "e", "n", "d">>,
     <<"/", "o", "s", "m", "o", "s", "i", "s", ".", "p", "o", "o", "l", "m",
       "a", "n", "a", "g", "e", "r", ".", "v", "1", "b", "e", "t", "a", "1",
       ".", "M", "s", "g", "S", "p", "l", "i", "t", "R", "o", "u", "t", "e",
       "S", "w", "a", "p", "E", "x", "a", "c", "t", "A", "m", "o", "u", "n",
       "t", "I", "n">>,
     <<"/", "o", "s", "m", "o", "s", "i", "s", ".", "s", "u", "p", "e", "r",
       "f", "l", "u", "i", "d", ".", "M", "s", "g", "S", "u", "p", "e", "r",
       "f", "l", "u", "i", "d", "D", "e", "l", "e", "g", "a", "t", "e">>,
     <<"/", "o", "s", "m", "o", "s", "i", "s", ".", "s", "u", "p", "e", "r",
       "f", "l", "u", "i", "d", ".", "M", "s", "g", "S", "u", "p", "e", "r",
       "f", "l", "u", "i", "d", "U", "n", "d", "e", "l", "e", "g", "a", "t",
       "e">>,
     <<"/", "c", "o", "s", "m", "o", "s", ".", "g", "o", "v", ".", "v", "1",
       "b", "e", "t", "a", "1", ".", "M", "s", "g", "V", "o", "t", "e", "W",
       "e", "i", "g", "h", "t", "e", "d">>,
     <<"/", "o", "s", "m", "o", "s", "i", "s", ".", "g", "a", "m", "m", ".",
       "v", "1", "b", "e", "t", "a", "1", ".", "E", "x", "i", "t", "P", "o",
       "o", "l">>}

\* { denom, amount } with both fields, with one of them and with neither
Coin(denom, amount) == [denom |-> denom, amount |-> amount]

CoinChoices ==
    {Coin(Some(Uosmo), Some(<<"1", "0", "0", "0", "0", "0", "0">>)),
     Coin(Some(Uatom), Missing),
     Coin(Missing, Some(<<"5", "0", "0", "0", "0", "0">>)),
     Coin(Missing, Missing)}

\* a hop of a swap, with and without its denominations
Route(tokenInDenom, tokenOutDenom) ==
    [tokenInDenom |-> tokenInDenom, tokenOutDenom |-> tokenOutDenom]

RouteChoices ==
    {Route(i, o) : i \in {Missing, Some(Uosmo)}, o \in {Missing, Some(Uatom)}}

\* a message with none of the fields the parser reads
EmptyMessage ==
    [type |-> Missing, typeUrl |-> Missing,
     tokenIn |-> Missing, tokenOutMinAmount |-> Missing,
     tokenInMaxAmount |-> Missing, tokenOut |-> Missing, routes |-> Missing,
     amount |-> Missing, tokensIn |-> Missing, tokensOut |-> Missing]

\* the fields of a swap message, any of them absent
SwapFields ==
    {[EmptyMessage EXCEPT !.tokenIn = tokenIn,
                          !.tokenOutMinAmount = minAmount,
                          !.tokenInMaxAmount = maxAmount,
                          !.tokenOut = tokenOut,
                          !.routes = routes] :
         tokenIn \in {Missing, Some(Coin(Some(Uosmo), Some(<<"7">>)))},
         minAmount \in {Missing, Some(<<"5", "0", "0", "0", "0", "0">>)},
         maxAmount \in {Missing, Some(<<"2", "5">>)},
         tokenOut \in {Missing, Some(Coin(Some(Uion), Missing))},
         routes \in {Missing, Some(<<>>)}
                        \cup {Some(<<r>>) : r \in RouteChoices}
                        \cup {Some(<<Route(Some(Uion), Some(Uion)), r>>) :
                                  r \in RouteChoices}}

\* the fields of the messages that carry coins, any of them absent; utest
\* and test are denominations of the parser tests (osmosis-client.ts:564,
\* :569), ibc/27394fb092d2 is an IBC denomination, shortened
CoinFields ==
    {[EmptyMessage EXCEPT !.amount = amount,
                          !.tokensIn = tokensIn,
                          !.tokensOut = tokensOut] :
         amount \in {Missing}
                        \cup {Some([array |-> FALSE, items |-> <<c>>]) :
                                  c \in CoinChoices}
                        \cup {Some([array |-> TRUE, items |-> <<c, c>>]) :
                                  c \in CoinChoices}
                        \cup {Some([array |-> TRUE, items |-> <<>>])},
         tokensIn \in
             {Missing,
              Some([array |-> TRUE,
                    items |->
                        <<Coin(Some(<<"u", "t", "e", "s", "t">>), Some(<<"1">>)),
                          Coin(Some(<<"i", "b", "c", "/", "2", "7", "3", "9",
                                      "4", "f", "b", "0", "9", "2", "d",
                                      "2">>),
                               Some(<<"0">>))>>])},
         tokensOut \in
             {Missing,
              Some([array |-> TRUE,
                    items |-> <<Coin(Some(<<"t", "e", "s", "t">>),
                                     Some(<<"8", "0", "0">>))>>])}}

\* how a message names its type: '@type', typeUrl, both or neither
TypeFields ==
    {[type |-> Some(t), typeUrl |-> Missing] : t \in TypeChoices}
        \cup {[type |-> Missing, typeUrl |-> Some(TypeSend)],
              [type |-> Some(<<>>), typeUrl |-> Some(TypeVote)],
              [type |-> Some(TypeDelegate), typeUrl |-> Some(TypeVote)],
              [type |-> Missing, typeUrl |-> Missing]}

MessageChoices ==
    {[fields EXCEPT !.type = t.type, !.typeUrl = t.typeUrl] :
         t \in TypeFields, fields \in SwapFields \cup CoinFields}

\* the messages that follow the first one in a list
OtherMessages ==
    {[EmptyMessage EXCEPT !.type = Some(TypeSend),
                          !.amount = Some([array |-> TRUE,
                                           items |-> <<Coin(Some(Uosmo),
                                                            Some(<<"9">>))>>])],
     [EmptyMessage EXCEPT !.type = Some(TypeVote)]}

\* null, the empty list, and lists of one and of two messages
MessageLists ==
    {Missing, Some(<<>>)}
        \cup {Some(<<m>>) : m \in MessageChoices}
        \cup {Some(<<m, other>>) : m \in MessageChoices,
                                   other \in OtherMessages}

\* the address argument: the caller's wallet, or '' as getTransactionDetails
\* passes it
ParserAddresses == {WellFormedAddress, <<>>}

\* parser.parseMessages(messages, address); the parser keeps no state, so
\* one call is looked at per behaviour
parseMessagesCall(messages, addr) ==
    /\ call.method = "none"
    /\ call' = [method   |-> "parseMessages",
                argument |-> [messages |-> messages, address |-> addr],
                result   |-> parseMessages(messages, addr)]
    /\ UNCHANGED <<lifecycleVars, lastCall, fetchVars, browserVars>>

\* parser.parseAmount(amount)
parseAmountCall(amount) ==
    /\ call.method = "none"
    /\ call' = [method   |-> "parseAmount",
                argument |-> amount,
                result   |-> parseAmount(amount)]
    /\ UNCHANGED <<lifecycleVars, lastCall, fetchVars, browserVars>>

NextParser ==
    \/ \E messages \in MessageLists, addr \in ParserAddresses :
           parseMessagesCall(messages, addr)
    \/ \E amount \in {Missing} \cup {Some(c) : c \in CoinChoices} :
           parseAmountCall(amount)

SpecParser == Init /\ [][NextParser]_vars

----------------------------------------------------------------------------
(* AmountFormatter *)

\* the Numbers on either side of 10^23, 2^24 apart: 10 ** 23 is one of them
BelowTenTo23 ==
    <<9, 9, 9, 9, 9, 9, 9, 9, 9, 9, 9, 9, 9, 9, 9, 9, 1, 6, 1, 1, 3, 9, 2>>

AboveTenTo23 ==
    <<1, 0, 0, 0, 0, 0, 0, 0, 0, 0, 0, 0, 0, 0, 0, 0, 0, 8, 3, 8, 8, 6, 0, 8>>

\* BigInt(10 ** decimals): the values it can have, for decimals up to 23;
\* 10^22 is the largest power of ten that a Number holds exactly
TenToThe(decimals) ==
    IF decimals <= 22
    THEN {<<1>> \o [i \in 1..decimals |-> 0]}
    ELSE {BelowTenTo23, AboveTenTo23}

\* fromBaseUnits(baseUnits, decimals), divisor being BigInt(10 ** decimals)
fromBaseUnits(baseUnits, decimals, divisor) ==
    DecimalString(BigInt(baseUnits), divisor, decimals)

\* toBaseUnits(value, decimals), power being BigInt(10 ** decimals)
toBaseUnits(value, decimals, power) ==
    LET parts == split(value)
        integerPart == IF parts[1] = <<>> THEN <<"0">> ELSE parts[1]
        fractionalPart ==
            slice(padEnd(IF Len(parts) > 1 THEN parts[2] ELSE <<>>, decimals),
                  0, decimals)
        baseUnits ==
            BigAdd(BigMul(BigInt(integerPart), power), BigInt(fractionalPart))
    IN  BigIntToString(baseUnits)

\* the base-unit amounts the formatter is called with: the integers of up to
\* MaxDigits digits, followed by runs of zeros that reach past the decimal
\* places, and the amounts of the formatAmount tests
\* (osmosis-client.ts:521, :526, :546)
BaseUnitInputs ==
    LET DigitSet == {DigitChars[k] : k \in 1..10}
        ShortIntegers ==
            {str \in UNION {[1..n -> DigitSet] : n \in 1..MaxDigits} :
                 Len(str) = 1 \/ str[1] # "0"}
        ZeroRuns == {0, 5, 6, 7, 12, 18, 22, 23}
    IN  {IF str = <<"0">> THEN str ELSE str \o [i \in 1..k |-> "0"] :
             str \in ShortIntegers, k \in ZeroRuns}
            \cup {<<"1", "2", "3", "4", "5", "6", "7">>,
                  <<"1", "5", "0", "0", "0", "0", "0">>,
                  <<"1", "2", "3", "4", "5", "6", "7", "8", "9">>}

\* decimal places: none, one, the 6 of uosmo, 18, and 23
DecimalChoices == {0, 1, 6, 18, 23}

\* AmountFormatter.fromBaseUnits(baseUnits, decimals); power is what
\* 10 ** decimals evaluates to
fromBaseUnitsCall(baseUnits, decimals, power) ==
    /\ call.method = "none"
    /\ call' = [method   |-> "fromBaseUnits",
                argument |-> [baseUnits |-> baseUnits, decimals |-> decimals,
                              power |-> power],
                result   |-> fromBaseUnits(baseUnits, decimals, power)]
    /\ UNCHANGED <<lifecycleVars, lastCall, fetchVars, browserVars>>

\* AmountFormatter.toBaseUnits(value, decimals) on the value fromBaseUnits
\* has returned, with the same decimals
toBaseUnitsCall ==
    /\ call.method = "fromBaseUnits"
    /\ call' = [method   |-> "toBaseUnits",
                argument |-> [value |-> call.result,
                              decimals |-> call.argument.decimals,
                              power |-> call.argument.power,
                              baseUnits |-> call.argument.baseUnits],
                result   |-> toBaseUnits(call.result, call.argument.decimals,
                                         call.argument.power)]
    /\ UNCHANGED <<lifecycleVars, lastCall, fetchVars, browserVars>>

NextAmounts ==
    \/ \E baseUnits \in BaseUnitInputs, decimals \in DecimalChoices :
           \E power \in TenToThe(decimals) :
               fromBaseUnitsCall(baseUnits, decimals, power)
    \/ toBaseUnitsCall

SpecAmounts == Init /\ [][NextAmounts]_vars

----------------------------------------------------------------------------
(* getTransactionDetails *)

\* the record the ledger keeps of a transaction, as getTx resolves to it;
\* messages stands for tx.body.messages
LedgerTx(hash, height, code, rawLog, messages) ==
    [hash      |-> hash,
     height    |-> height,
     code      |-> code,
     gasUsed   |-> 100000,
     gasWanted |-> 150000,
     rawLog    |-> rawLog,
     messages  |-> messages]

\* the hashes asked for (part_003:375, :421)
TxHashes == {"ABC123", "NONEXISTENT"}

\* the message lists of the records: none, the transfer of
\* part_003:386-391, and a swap whose only route names no denomination
DetailMessages ==
    LET TransferMessage ==
            [EmptyMessage EXCEPT
                 !.type = Some(TypeSend),
                 !.amount =
                     Some([array |-> TRUE,
                           items |-> <<Coin(Some(Uosmo),
                                            Some(<<"1", "0", "0", "0", "0",
                                                   "0", "0">>))>>])]
        BareRouteSwap ==
            [EmptyMessage EXCEPT
                 !.type = Some(TypeSwapIn),
                 !.tokenOutMinAmount = Some(<<"5", "0", "0", "0", "0", "0">>),
                 !.routes = Some(<<Route(Missing, Missing)>>)]
    IN  {Some(<<>>), Some(<<TransferMessage>>), Some(<<BareRouteSwap>>)}

\* what getTx can resolve to for a hash: null, or a record of that hash
LedgerAnswers(txHash) ==
    {Missing}
        \cup {Some(LedgerTx(txHash, height, code, rawLog, messages)) :
                  height \in {1, MaxHeight},
                  code \in {0, 5},
                  rawLog \in {"Transaction successful", "out of gas"},
                  messages \in DetailMessages}

\* the object getTransactionDetails returns: basicTx spread, then the five
\* fields read from the record; parsed is what parseMessages gave
TransactionDetail(basicTx, parsed, tx) ==
    [hash        |-> basicTx.hash,
     timestamp   |-> basicTx.timestamp,
     status      |-> basicTx.status,
     type        |-> parsed.type,
     amounts     |-> parsed.amounts,
     blockHeight |-> tx.height,
     gasUsed     |-> tx.gasUsed,
     gasWanted   |-> tx.gasWanted,
     rawLog      |-> tx.rawLog,
     messages    |-> tx.messages]

\* getTransactionDetails(txHash), up to its await: the test of this.client
\* and the getTx request
getTransactionDetails(txHash) ==
    /\ call.method = "none"
    /\ call' =
           IF client = NULL
           THEN [method   |-> "getTransactionDetails",
                 argument |-> txHash,
                 pc       |-> "settled",
                 getTx    |-> <<>>,
                 answer   |-> "none",
                 tx       |-> Missing,
                 result   |->
                     Thrown("Client not initialized. Call initialize() first.")]
           ELSE [method   |-> "getTransactionDetails",
                 argument |-> txHash,
                 pc       |-> "getTx",
                 getTx    |-> <<[handle |-> client, hash |-> txHash]>>,
                 answer   |-> "none",
                 tx       |-> Missing,
                 result   |-> NoOutcome]
    /\ UNCHANGED <<lifecycleVars, lastCall, fetchVars, browserVars>>

\* the pending getTx has resolved to tx, Missing for null: the test of tx,
\* parseTransaction(tx, '') with its call of the message parser, and the
\* return
getTxResolved(tx) ==
    /\ call.method = "getTransactionDetails"
    /\ call.pc = "getTx"
    /\ call' =
           [call EXCEPT
                !.pc = "settled",
                !.answer = "resolved",
                !.tx = tx,
                !.result =
                    IF tx = Missing
                    THEN Thrown("Transaction not found: " \o call.argument)
                    ELSE LET parsed == parseMessages(tx[1].messages, <<>>)
                         IN  IF parsed.kind = "thrown"
                             THEN Thrown(parsed.error)
                             ELSE Returned(
                                      TransactionDetail(
                                          parseTransaction(tx[1]), parsed,
                                          tx[1]))]
    /\ UNCHANGED <<lifecycleVars, lastCall, fetchVars, browserVars>>

\* the pending getTx rejects: the call rejects with the same error
getTxRejected ==
    /\ call.method = "getTransactionDetails"
    /\ call.pc = "getTx"
    /\ call' = [call EXCEPT !.pc = "settled",
                            !.answer = "rejected",
                            !.result = Thrown("getTx failed")]
    /\ UNCHANGED <<lifecycleVars, lastCall, fetchVars, browserVars>>

\* the caller has taken the settled call's result
detailsSettled ==
    /\ call.method = "getTransactionDetails"
    /\ call.pc = "settled"
    /\ call' = NoCall
    /\ UNCHANGED <<lifecycleVars, lastCall, fetchVars, browserVars>>

----------------------------------------------------------------------------
(* CSVExporter *)

\* a Transaction handed to the exporter: hash, value, symbol and denom are
\* strings, timestamp is a Date given as its milliseconds since the epoch,
\* type is one of the TransactionType literals

\* Date.prototype.toISOString, which DateFormatter.formatForCSV returns for a
\* valid Date: every millisecond count of the model's integers lies in
\* January 1970
toISOString(date) ==
    LET TwoDigits(n) ==
            <<DigitChars[(n \div 10) + 1], DigitChars[(n % 10) + 1]>>
        day == (date \div 86400000) + 1
        hours == (date \div 3600000) % 24
        minutes == (date \div 60000) % 60
        seconds == (date \div 1000) % 60
        milliseconds == date % 1000
    IN  <<"1", "9", "7", "0", "-", "0", "1", "-">> \o TwoDigits(day)
            \o <<"T">> \o TwoDigits(hours) \o <<":">> \o TwoDigits(minutes)
            \o <<":">> \o TwoDigits(seconds) \o <<".">>
            \o <<DigitChars[(milliseconds \div 100) + 1]>>
            \o TwoDigits(milliseconds % 100) \o <<"Z">>

\* a join that leaves the separator out
RECURSIVE join_unseparated(_, _)
join_unseparated(parts, separator) ==
    IF Len(parts) = 0 THEN <<>>
    ELSE Head(parts) \o join_unseparated(Tail(parts), separator)

\* Array.prototype.join
RECURSIVE join(_, _)
join(parts, separator) ==
    IF Len(parts) = 0 THEN <<>>
    ELSE IF Len(parts) = 1 THEN parts[1]
    ELSE LET half == Len(parts) \div 2
         IN  join(SubSeq(parts, 1, half), separator) \o separator
                 \o join(SubSeq(parts, half + 1, Len(parts)), separator)

\* mapToAwakenTax(tx) with mapTransactionType and the mapper of each type:
\* the row is a function of the column names
mapToAwakenTax(tx) ==
    LET mapTransactionType(type) ==
            CASE type = "swap" -> <<"T", "r", "a", "d", "e">>
              [] type = "transfer" -> <<"T", "r", "a", "n", "s", "f", "e", "r">>
              [] type = "stake" -> <<"S", "t", "a", "k", "e">>
              [] type = "unstake" -> <<"U", "n", "s", "t", "a", "k", "e">>
              [] type = "claim_rewards" -> <<"I", "n", "c", "o", "m", "e">>
              [] type = "provide_liquidity" -> <<"T", "r", "a", "d", "e">>
              [] type = "remove_liquidity" -> <<"T", "r", "a", "d", "e">>
              [] type = "vote" -> <<"O", "t", "h", "e", "r">>
              [] type = "unknown" -> <<"O", "t", "h", "e", "r">>
              [] OTHER -> <<"O", "t", "h", "e", "r">>
        row ==
            ("Date" :> toISOString(tx.timestamp))
                @@ ("Type" :> mapTransactionType(tx.type))
                @@ ("Buy Amount" :> <<>>)
                @@ ("Buy Currency" :> <<>>)
                @@ ("Sell Amount" :> <<>>)
                @@ ("Sell Currency" :> <<>>)
                @@ ("Fee Amount" :> tx.fee.value)
                @@ ("Fee Currency" :> tx.fee.symbol)
                @@ ("Exchange" :> <<"O", "s", "m", "o", "s", "i", "s">>)
                @@ ("Transaction ID" :> tx.hash)
        values == [i \in 1..Len(tx.amounts) |-> tx.amounts[i].value]
        symbols == [i \in 1..Len(tx.amounts) |-> tx.amounts[i].symbol]
        mapSwap ==
            IF Len(tx.amounts) >= 2
            THEN [row EXCEPT !["Sell Amount"] = tx.amounts[1].value,
                             !["Sell Currency"] = tx.amounts[1].symbol,
                             !["Buy Amount"] = tx.amounts[2].value,
                             !["Buy Currency"] = tx.amounts[2].symbol]
            ELSE IF Len(tx.amounts) = 1
            THEN [row EXCEPT !["Sell Amount"] = tx.amounts[1].value,
                             !["Sell Currency"] = tx.amounts[1].symbol]
            ELSE row
        mapTransfer ==
            IF Len(tx.amounts) > 0
            THEN [row EXCEPT !["Sell Amount"] = tx.amounts[1].value,
                             !["Sell Currency"] = tx.amounts[1].symbol]
            ELSE row
        mapStake ==
            IF Len(tx.amounts) > 0
            THEN [row EXCEPT !["Sell Amount"] = tx.amounts[1].value,
                             !["Sell Currency"] = tx.amounts[1].symbol]
            ELSE row
        mapUnstake ==
            IF Len(tx.amounts) > 0
            THEN [row EXCEPT !["Buy Amount"] = tx.amounts[1].value,
                             !["Buy Currency"] = tx.amounts[1].symbol]
            ELSE row
        mapClaimRewards ==
            IF Len(tx.amounts) > 0
            THEN [row EXCEPT !["Buy Amount"] = tx.amounts[1].value,
                             !["Buy Currency"] = tx.amounts[1].symbol]
            ELSE row
        mapProvideLiquidity ==
            IF Len(tx.amounts) > 0
            THEN [row EXCEPT !["Sell Amount"] = join(values, <<"+">>),
                             !["Sell Currency"] = join(symbols, <<"+">>)]
            ELSE row
        mapRemoveLiquidity ==
            IF Len(tx.amounts) > 0
            THEN [row EXCEPT !["Buy Amount"] = join(values, <<"+">>),
                             !["Buy Currency"] = join(symbols, <<"+">>)]
            ELSE row
    IN  CASE tx.type = "swap" -> mapSwap
          [] tx.type = "transfer" -> mapTransfer
          [] tx.type = "stake" -> mapStake
          [] tx.type = "unstake" -> mapUnstake
          [] tx.type = "claim_rewards" -> mapClaimRewards
          [] tx.type = "provide_liquidity" -> mapProvideLiquidity
          [] tx.type = "remove_liquidity" -> mapRemoveLiquidity
          [] OTHER -> row

\* an escape that wraps the field and leaves its quotes single
escapeCSVField_quotesKept(field) ==
    IF \/ includes(field, <<",">>)
       \/ includes(field, <<"\"">>)
       \/ includes(field, <<"\n">>)
    THEN <<"\"">> \o field \o <<"\"">>
    ELSE field

\* escapeCSVField(field), field a string
escapeCSVField(field) ==
    LET escaped ==
            join([i \in 1..Len(field) |->
                     IF field[i] = "\"" THEN <<"\"", "\"">> ELSE <<field[i]>>],
                 <<>>)
    IN  IF \/ includes(field, <<",">>)
           \/ includes(field, <<"\"">>)
           \/ includes(field, <<"\n">>)
        THEN <<"\"">> \o escaped \o <<"\"">>
        ELSE field

\* generateCSV(rows): each header is a key of the row and the text of its
\* own column title
generateCSV(rows) ==
    LET headers ==
            << [key |-> "Date", text |-> <<"D", "a", "t", "e">>],
               [key |-> "Type", text |-> <<"T", "y", "p", "e">>],
               [key |-> "Buy Amount",
                text |-> <<"B", "u", "y", " ", "A", "m", "o", "u", "n", "t">>],
               [key |-> "Buy Currency",
                text |-> <<"B", "u", "y", " ", "C", "u", "r", "r", "e", "n",
                           "c", "y">>],
               [key |-> "Sell Amount",
                text |-> <<"S", "e", "l", "l", " ", "A", "m", "o", "u", "n",
                           "t">>],
               [key |-> "Sell Currency",
                text |-> <<"S", "e", "l", "l", " ", "C", "u", "r", "r", "e",
                           "n", "c", "y">>],
               [key |-> "Fee Amount",
                text |-> <<"F", "e", "e", " ", "A", "m", "o", "u", "n", "t">>],
               [key |-> "Fee Currency",
                text |-> <<"F", "e", "e", " ", "C", "u", "r", "r", "e", "n",
                           "c", "y">>],
               [key |-> "Exchange",
                text |-> <<"E", "x", "c", "h", "a", "n", "g", "e">>],
               [key |-> "Transaction ID",
                text |-> <<"T", "r", "a", "n", "s", "a", "c", "t", "i", "o",
                           "n", " ", "I", "D">>] >>
        headerRow ==
            join([h \in 1..Len(headers) |-> escapeCSVField(headers[h].text)],
                 <<",">>)
        dataRows ==
            [r \in 1..Len(rows) |->
                join([h \in 1..Len(headers) |->
                         escapeCSVField(rows[r][headers[h].key])],
                     <<",">>)]
    IN  join(<<headerRow>> \o dataRows, <<"\n">>)

\* an export that maps a vote or an unknown transaction as it maps a transfer
exportToAwakenTax_otherAsTransfer(transactions) ==
    /\ call.method = "none"
    /\ LET AsTransfer(tx) ==
               IF tx.type \in {"vote", "unknown"}
               THEN [tx EXCEPT !.type = "transfer"]
               ELSE tx
           rows == [i \in 1..Len(transactions) |->
                       mapToAwakenTax(AsTransfer(transactions[i]))]
       IN  call' = [method   |-> "exportToAwakenTax",
                    argument |-> transactions,
                    rows     |-> rows,
                    result   |-> generateCSV(rows)]
    /\ UNCHANGED <<lifecycleVars, lastCall, fetchVars, browserVars>>

\* an export whose document ends with a newline
exportToAwakenTax_trailingNewline(transactions) ==
    /\ call.method = "none"
    /\ LET rows == [i \in 1..Len(transactions) |->
                       mapToAwakenTax(transactions[i])]
       IN  call' = [method   |-> "exportToAwakenTax",
                    argument |-> transactions,
                    rows     |-> rows,
                    result   |-> generateCSV(rows) \o <<"\n">>]
    /\ UNCHANGED <<lifecycleVars, lastCall, fetchVars, browserVars>>

\* an export whose rows have the Buy and the Sell side exchanged
exportToAwakenTax_sidesExchanged(transactions) ==
    /\ call.method = "none"
    /\ LET Exchanged(row) ==
               [row EXCEPT !["Buy Amount"] = row["Sell Amount"],
                           !["Buy Currency"] = row["Sell Currency"],
                           !["Sell Amount"] = row["Buy Amount"],
                           !["Sell Currency"] = row["Buy Currency"]]
           rows == [i \in 1..Len(transactions) |->
                       Exchanged(mapToAwakenTax(transactions[i]))]
       IN  call' = [method   |-> "exportToAwakenTax",
                    argument |-> transactions,
                    rows     |-> rows,
                    result   |-> generateCSV(rows)]
    /\ UNCHANGED <<lifecycleVars, lastCall, fetchVars, browserVars>>

\* exporter.exportToAwakenTax(transactions): the rows are kept beside the
\* document they are written to
exportToAwakenTax(transactions) ==
    /\ call.method = "none"
    /\ LET rows == [i \in 1..Len(transactions) |->
                       mapToAwakenTax(transactions[i])]
       IN  call' = [method   |-> "exportToAwakenTax",
                    argument |-> transactions,
                    rows     |-> rows,
                    result   |-> generateCSV(rows)]
    /\ UNCHANGED <<lifecycleVars, lastCall, fetchVars, browserVars>>

\* the exports tried: one transaction of every type with every list of
\* amounts, one swap with every short hash over plain and special characters,
\* and every short list of transactions
NextExport ==
    LET Amount(value, denom, symbol) ==
            [value |-> value, denom |-> denom, symbol |-> symbol]
        TenOsmo == Amount(<<"1", "0">>, Uosmo, <<"O", "S", "M", "O">>)
        FiveAtom == Amount(<<"5">>, Uatom, <<"A", "T", "O", "M">>)
        Fee == Amount(<<"0", ".", "0", "0", "5">>, Uosmo,
                      <<"O", "S", "M", "O">>)
        Amounts ==
            {TenOsmo, FiveAtom,
             Amount(<<"0", ".", "5">>, <<"a", ",", "\"", "b">>,
                    <<"A", ",", "\"", "B">>)}
        AmountLists == UNION {[1..n -> Amounts] : n \in 0..MaxAmounts}
        Types ==
            {"swap", "transfer", "stake", "unstake", "claim_rewards",
             "provide_liquidity", "remove_liquidity", "vote", "unknown"}
        Hashes ==
            UNION {[1..n -> {"A", ",", "\"", "\n"}] : n \in 0..MaxHashLength}
                \cup {<<"C", "o", "n", "t", "a", "i", "n", "s", ",", " ",
                        "c", "o", "m", "m", "a">>}
        Tx(hash, height, type, amounts) ==
            [hash |-> hash, timestamp |-> height * BlockInterval,
             type |-> type, amounts |-> amounts, fee |-> Fee]
        Listed ==
            {Tx(<<"A", "B", "C", "1", "2", "3">>, 1, "swap",
                <<TenOsmo, FiveAtom>>),
             Tx(<<"D", ",", "E">>, 2, "provide_liquidity",
                <<TenOsmo, FiveAtom>>),
             Tx(<<"\n">>, 3, "vote", <<>>)}
    IN  \/ \E type \in Types, amounts \in AmountLists :
               exportToAwakenTax(<<Tx(<<"A", "B", "C", "1", "2", "3">>, 1,
                                       type, amounts)>>)
        \/ \E hash \in Hashes :
               exportToAwakenTax(<<Tx(hash, 1, "swap",
                                       <<TenOsmo, FiveAtom>>)>>)
        \/ \E n \in 0..MaxRows :
               \E transactions \in [1..n -> Listed] :
                   exportToAwakenTax(transactions)

SpecExport == Init /\ [][NextExport]_vars

----------------------------------------------------------------------------
(* WalletManager *)

\* the item is absent (Missing) or holds the text JSON.stringify wrote; the
\* text is kept as the list it denotes, each date in it as the string
\* Date.prototype.toJSON gives. An address or a label is an opaque string.

\* getSavedWallets(): the list of the item, each date string turned back into
\* a Date by new Date(string); no item reads as the empty list
getSavedWallets ==
    LET Digits(str, from, to) ==
            LET DigitOf(c) == (CHOOSE d \in 1..10 : DigitChars[d] = c) - 1
                Value(k) ==
                    DigitOf(str[from + k]) *
                        (CASE to - from - k = 0 -> 1
                           [] to - from - k = 1 -> 10
                           [] to - from - k = 2 -> 100)
            IN  IF to - from = 1 THEN Value(0) + Value(1)
                ELSE Value(0) + Value(1) + Value(2)
        Date(str) ==
            (Digits(str, 9, 10) - 1) * 86400000 + Digits(str, 12, 13) * 3600000
                + Digits(str, 15, 16) * 60000 + Digits(str, 18, 19) * 1000
                + Digits(str, 21, 23)
    IN  IF storage = Missing THEN <<>>
        ELSE [i \in 1..Len(storage[1]) |->
                 [storage[1][i] EXCEPT !.addedAt = Date(@),
                                       !.lastViewed = Date(@)]]

\* saveToStorage(wallets) within the call called: localStorage.setItem
\* stores the text of the list, or throws for lack of quota and stores
\* nothing
saveToStorage(wallets, called) ==
    \/ /\ storage' =
              Some([i \in 1..Len(wallets) |->
                       [wallets[i] EXCEPT !.addedAt = toISOString(@),
                                          !.lastViewed = toISOString(@)]])
       /\ walletCall' = called
    \/ /\ UNCHANGED storage
       /\ walletCall' = [called EXCEPT !.threw = TRUE]

\* the index findIndex and find stop at: the first entry with the address,
\* 0 when there is none
FirstIndex(wallets, addr) ==
    IF \E i \in 1..Len(wallets) : wallets[i].address = addr
    THEN CHOOSE i \in 1..Len(wallets) :
             /\ wallets[i].address = addr
             /\ \A j \in 1..(i - 1) : wallets[j].address # addr
    ELSE 0

\* a saveWallet that does not look for the address and always adds an entry
saveWallet_alwaysAdds(addr, label) ==
    \E addedAt \in now..MaxNow :
        \E lastViewed \in addedAt..MaxNow :
            /\ now' = lastViewed
            /\ saveToStorage(Append(getSavedWallets,
                                    [address |-> addr, label |-> label,
                                     addedAt |-> addedAt,
                                     lastViewed |-> lastViewed]),
                             [method |-> "saveWallet", address |-> addr,
                              label |-> label, threw |-> FALSE])
            /\ UNCHANGED <<lifecycleVars, lastCall, fetchVars, call,
                           inputValue, validationState, errorMessage, timers,
                           clipboardReads>>

\* saveWallet(address, label): each new Date() reads the clock, which may
\* have advanced since the read before
saveWallet(addr, label) ==
    LET wallets == getSavedWallets
        existingIndex == FirstIndex(wallets, addr)
        called == [method |-> "saveWallet", address |-> addr,
                   label |-> label, threw |-> FALSE]
    IN  /\ \E addedAt \in now..MaxNow :
               \E lastViewed \in addedAt..MaxNow :
                   /\ now' = lastViewed
                   /\ IF existingIndex > 0
                      THEN \* one new Date() only
                           /\ addedAt = lastViewed
                           /\ saveToStorage(
                                  [wallets EXCEPT
                                      ![existingIndex].label = label,
                                      ![existingIndex].lastViewed = lastViewed],
                                  called)
                      ELSE saveToStorage(
                               Append(wallets,
                                      [address |-> addr, label |-> label,
                                       addedAt |-> addedAt,
                                       lastViewed |-> lastViewed]),
                               called)
        /\ UNCHANGED <<lifecycleVars, lastCall, fetchVars, call, inputValue,
                       validationState, errorMessage, timers, clipboardReads>>

\* removeWallet(address)
removeWallet(addr) ==
    LET wallets == getSavedWallets
        Kept(w) == w.address # addr
    IN  /\ saveToStorage(SelectSeq(wallets, Kept),
                         [method |-> "removeWallet", address |-> addr,
                          label |-> "", threw |-> FALSE])
        /\ UNCHANGED <<lifecycleVars, lastCall, fetchVars, call, now,
                       inputValue, validationState, errorMessage, timers,
                       clipboardReads>>

\* updateLabel(address, newLabel)
updateLabel(addr, newLabel) ==
    LET wallets == getSavedWallets
        wallet == FirstIndex(wallets, addr)
        called == [method |-> "updateLabel", address |-> addr,
                   label |-> newLabel, threw |-> FALSE]
    IN  /\ IF wallet > 0
           THEN saveToStorage([wallets EXCEPT ![wallet].label = newLabel],
                              called)
           ELSE /\ walletCall' = called
                /\ UNCHANGED storage
        /\ UNCHANGED <<lifecycleVars, lastCall, fetchVars, call, now,
                       inputValue, validationState, errorMessage, timers,
                       clipboardReads>>

\* updateLastViewed(address)
updateLastViewed(addr) ==
    LET wallets == getSavedWallets
        wallet == FirstIndex(wallets, addr)
        called == [method |-> "updateLastViewed", address |-> addr,
                   label |-> "", threw |-> FALSE]
    IN  /\ IF wallet > 0
           THEN \E lastViewed \in now..MaxNow :
                    /\ now' = lastViewed
                    /\ saveToStorage(
                           [wallets EXCEPT ![wallet].lastViewed = lastViewed],
                           called)
           ELSE /\ walletCall' = called
                /\ UNCHANGED <<storage, now>>
        /\ UNCHANGED <<lifecycleVars, lastCall, fetchVars, call, inputValue,
                       validationState, errorMessage, timers, clipboardReads>>

\* clearAll(): localStorage.removeItem
clearAll ==
    /\ storage' = Missing
    /\ walletCall' = [method |-> "clearAll", address |-> "", label |-> "",
                      threw |-> FALSE]
    /\ UNCHANGED <<lifecycleVars, lastCall, fetchVars, call, now, inputValue,
                   validationState, errorMessage, timers, clipboardReads>>

\* the wallet manager used with two addresses and two labels
NextWallets ==
    \/ \E addr \in {"osmo1a", "osmo1b"}, label \in {"Main", "Savings"} :
           \/ saveWallet(addr, label)
           \/ updateLabel(addr, label)
    \/ \E addr \in {"osmo1a", "osmo1b"} :
           \/ removeWallet(addr)
           \/ updateLastViewed(addr)
    \/ clearAll

SpecWallets == Init /\ [][NextWallets]_vars

----------------------------------------------------------------------------
(* WalletInput *)

\* String.prototype.trim
trim(str) ==
    LET kept == {i \in 1..Len(str) : str[i] \notin {" ", "\t", "\n"}}
    IN  IF kept = {} THEN <<>>
        ELSE SubSeq(str,
                    CHOOSE i \in kept : \A j \in kept : i <= j,
                    CHOOSE i \in kept : \A j \in kept : j <= i)

\* validateAddress(address) of the component: the state it sets; its pattern
\* /^osmo[a-z0-9]{39}$/ is the pattern of OsmosisClient.validateAddress
validateInput(addr) ==
    LET trimmed == trim(addr)
    IN  IF trimmed = <<>>
        THEN /\ validationState' = "idle"
             /\ errorMessage' = ""
        ELSE IF RegexTest(osmosisAddressRegex, trimmed)
        THEN /\ validationState' = "valid"
             /\ errorMessage' = ""
        ELSE /\ validationState' = "invalid"
             /\ errorMessage' =
                    "Please enter a valid Osmosis wallet address (starting with 'osmo')"

\* handleChange: the input's value has become newValue; the validation is
\* put off by 300 ms
handleChange(newValue) ==
    /\ Len(timers) < MaxTimers
    /\ newValue # inputValue
    /\ inputValue' = newValue
    /\ validationState' = "validating"
    /\ timers' = Append(timers, newValue)
    /\ UNCHANGED <<lifecycleVars, lastCall, fetchVars, call, storage, now,
                   walletCall, errorMessage, clipboardReads>>

\* the callback of the oldest pending setTimeout runs: every delay is 300 ms,
\* so the callbacks run in the order they were set
timeoutFires ==
    /\ timers # <<>>
    /\ validateInput(Head(timers))
    /\ timers' = Tail(timers)
    /\ UNCHANGED <<lifecycleVars, lastCall, fetchVars, call, storage, now,
                   walletCall, inputValue, clipboardReads>>

\* handlePaste, up to its await of navigator.clipboard.readText()
handlePaste ==
    /\ clipboardReads < MaxPastes
    /\ clipboardReads' = clipboardReads + 1
    /\ UNCHANGED <<lifecycleVars, lastCall, fetchVars, call, storage, now,
                   walletCall, inputValue, validationState, errorMessage,
                   timers>>

\* readText() resolves to text, Missing when it rejects: the rest of
\* handlePaste, or its catch block
readTextSettled(text) ==
    /\ clipboardReads > 0
    /\ clipboardReads' = clipboardReads - 1
    /\ IF text = Missing
       THEN UNCHANGED <<inputValue, validationState, errorMessage>>
       ELSE /\ inputValue' = trim(text[1])
            /\ validateInput(trim(text[1]))
    /\ UNCHANGED <<lifecycleVars, lastCall, fetchVars, call, storage, now,
                   walletCall, timers>>

\* handleSubmit: the value is validated at once; onSubmit is the caller's
handleSubmit ==
    /\ validateInput(trim(inputValue))
    /\ UNCHANGED <<lifecycleVars, lastCall, fetchVars, call, storage, now,
                   walletCall, inputValue, timers, clipboardReads>>

\* the input typed into, pasted into and submitted, with a few values: empty,
\* blank, a letter, an address, an address between blanks, a wrong address
NextInput ==
    LET Values ==
            {<<>>, <<" ">>, <<"x">>, WellFormedAddress,
             <<" ">> \o WellFormedAddress \o <<" ">>, InvalidAddress}
    IN  \/ \E newValue \in Values : handleChange(newValue)
        \/ timeoutFires
        \/ handlePaste
        \/ \E text \in {Missing} \cup {Some(v) : v \in Values} :
               readTextSettled(text)
        \/ handleSubmit

SpecInput == Init /\ [][NextInput]_vars

----------------------------------------------------------------------------
(* Specification *)

\* the caller has one query of the ledger running at a time: a
\* fetchTransactions or a getTransactionDetails call
Next ==
    \/ initialize
    \/ connectResolved
    \/ connectRejected
    \/ disconnect
    \/ /\ call.method = "none"
       /\ \E addr \in AddressChoices, opts \in OptionChoices :
              \E src \in Sources(opts) :
                  fetchTransactions(addr, opts, src)
    \/ /\ fetchPc = "searchTx"
       /\ Len(requests) <= Len(source.answers)
       /\ Answer.kind = "page"
       /\ searchTxResolved(Page(Answer.length, nextHash, source.height))
    \/ searchTxRejected
    \/ fetchSettled
    \/ /\ fetchPc = "idle"
       /\ \E txHash \in TxHashes : getTransactionDetails(txHash)
    \/ /\ call.method = "getTransactionDetails"
       /\ \E tx \in LedgerAnswers(call.argument) : getTxResolved(tx)
    \/ getTxRejected
    \/ detailsSettled

Spec == Init /\ [][Next]_vars

\* the client used by a caller that awaits each initialize() before its next
\* initialize() or disconnect() call: no such call is made while a connect is
\* pending
NextAwaited ==
    \/ pendingConnects = 0 /\ initialize
    \/ connectResolved
    \/ connectRejected
    \/ pendingConnects = 0 /\ disconnect
    \/ /\ call.method = "none"
       /\ \E addr \in AddressChoices, opts \in OptionChoices :
              \E src \in Sources(opts) :
                  fetchTransactions(addr, opts, src)
    \/ /\ fetchPc = "searchTx"
       /\ Len(requests) <= Len(source.answers)
       /\ Answer.kind = "page"
       /\ searchTxResolved(Page(Answer.length, nextHash, source.height))
    \/ searchTxRejected
    \/ fetchSettled
    \/ /\ fetchPc = "idle"
       /\ \E txHash \in TxHashes : getTransactionDetails(txHash)
    \/ /\ call.method = "getTransactionDetails"
       /\ \E tx \in LedgerAnswers(call.argument) : getTxResolved(tx)
    \/ getTxRejected
    \/ detailsSettled

SpecAwaited == Init /\ [][NextAwaited]_vars

\* the same caller with a source that answers every page request it is sent:
\* the pending searchTx does not stay pending for ever
SpecAnswered ==
    /\ Init
    /\ [][NextAwaited]_vars
    /\ WF_vars(\/ /\ fetchPc = "searchTx"
                  /\ Len(requests) <= Len(source.answers)
                  /\ Answer.kind = "page"
                  /\ searchTxResolved(Page(Answer.length, nextHash,
                                           source.height))
               \/ searchTxRejected)

\* the same caller fetching by date without options.limit, from a
\* well-formed address
NextDates ==
    \/ pendingConnects = 0 /\ initialize
    \/ connectResolved
    \/ connectRejected
    \/ pendingConnects = 0 /\ disconnect
    \/ \E opts \in DateOptions :
           \E src \in Sources(opts) :
               fetchTransactions(WellFormedAddress, opts, src)
    \/ /\ fetchPc = "searchTx"
       /\ Len(requests) <= Len(source.answers)
       /\ Answer.kind = "page"
       /\ searchTxResolved(Page(Answer.length, nextHash, source.height))
    \/ searchTxRejected
    \/ fetchSettled

SpecDates == Init /\ [][NextDates]_vars

----------------------------------------------------------------------------
(* Properties of fetchTransactions *)

Last(seq) == seq[Len(seq)]

RECURSIVE Concat(_)
\* the records of a sequence of pages, in the order received
Concat(pages) ==
    IF pages = <<>> THEN <<>>
    ELSE Concat(SubSeq(pages, 1, Len(pages) - 1)) \o Last(pages)

\* the normalized transactions of raw records, none left out
ParseAll(txs) == [i \in 1..Len(txs) |-> parseTransaction(txs[i])]

\* the call returned its list and its catch block caught nothing
ReturnedClean ==
    /\ fetchPc = "settled"
    /\ outcome.kind = "returned"
    /\ caught = "nothing"

NoDateFilter == options.startDate = undefined /\ options.endDate = undefined

NoDuplicates(seq) ==
    \A i, j \in 1..Len(seq) : seq[i].hash = seq[j].hash => i = j

RECURSIVE RecordsBefore(_)
\* the number of records in the first n answers of the source
RecordsBefore(n) ==
    IF n = 0 THEN 0 ELSE RecordsBefore(n - 1) + source.answers[n].length

\* the pages the source holds, in the order it serves them
SourcePages ==
    [i \in 1..Len(source.answers) |->
         Page(source.answers[i].length, RecordsBefore(i - 1) + 1,
              source.height)]

\* the source answers with full pages followed by one partial or empty page
FullThenShort ==
    /\ source.answers # <<>>
    /\ Last(source.answers).kind = "page"

RECURSIVE Accumulated(_, _)
\* what the record loop has pushed over a sequence of completed pages
Accumulated(pages, opts) ==
    IF pages = <<>> THEN <<>>
    ELSE PushPage(Accumulated(SubSeq(pages, 1, Len(pages) - 1), opts),
                  Last(pages), opts)

\* C2: a page request that fails does not make the call reject: the call
\* returns the transactions of the pages completed before, and the failed
\* request is the last one it issued
C2_FailureSwallowed ==
    (caught = "searchTx") =>
        /\ fetchPc = "settled"
        /\ outcome = Returned(Accumulated(received, options))
        /\ Len(requests) = Len(received) + 1

C2_Witness ==
    /\ caught = "searchTx"
    /\ Len(received) = 2
    /\ outcome.kind = "returned"
    /\ Len(outcome.value) > 0

NotInitializedMessage == "Client not initialized. Call initialize() first."

InvalidAddressMessage == "Invalid Osmosis address format"

\* C3: a call made without a handle rejects with 'Client not initialized',
\* whatever the address; a call made with a handle and an address that does
\* not validate rejects with 'Invalid Osmosis address format'; a call that
\* rejected has issued no page request
C3_FailFast ==
    /\ [][(fetchPc = "idle" /\ fetchPc' # "idle") =>
              /\ (client = NULL) =>
                     (outcome' = Thrown(NotInitializedMessage)
                          /\ fetchPc' = "settled")
              /\ (client # NULL /\ ~validateAddress(address')) =>
                     (outcome' = Thrown(InvalidAddressMessage)
                          /\ fetchPc' = "settled")]_vars
    /\ [](outcome.kind = "thrown" => requests = <<>>)

C3_Witness ==
    /\ outcome = Thrown(NotInitializedMessage)
    /\ ~validateAddress(address)
    /\ established > 0
    /\ client = NULL

\* C4: fetchTransactions never rejects the address of the client tests,
\* osmo1abcdefghijklmnopqrstuvwxyz0123456789, as an invalid address
C4_TestAddressAccepted ==
    (address = TestAddress) => outcome # Thrown(InvalidAddressMessage)

C9_PagesUntilEmpty ==
    (ReturnedClean /\ Len(outcome.value) < limit) => Last(received) = <<>>

\* C10: a call with options.limit = L returns at most L transactions
C10_AtMostLimit ==
    (fetchPc = "settled" /\ outcome.kind = "returned" /\ options.limit > 0) =>
        Len(outcome.value) <= options.limit

\* page requests answered so far, by a page or by a failure
Answered == Len(received) + (IF caught = "searchTx" THEN 1 ELSE 0)

\* C11: at most one page request is outstanding, and one is outstanding
\* exactly while the call is suspended on searchTx; a request is issued only
\* by the call itself or by the step in which the previous request completed
\* with a page; the page numbers start at floor(offset / limit) + 1 and
\* increase by exactly 1 per request
C11_Sequential ==
    /\ [](/\ Len(requests) - Answered \in {0, 1}
          /\ (Len(requests) - Answered = 1) <=> (fetchPc = "searchTx")
          /\ \A i \in 1..Len(requests) :
                 /\ requests[i].page =
                        (StartOffset(options) \div PageSize(options)) + i
                 /\ requests[i].per_page = PageSize(options))
    /\ [][Len(requests') > Len(requests) =>
              /\ Len(requests') = Len(requests) + 1
              /\ \/ requests = <<>> /\ fetchPc = "idle"
                 \/ /\ Len(received') = Len(received) + 1
                    /\ Len(received') = Len(requests)]_vars

C11_Witness ==
    /\ fetchPc = "settled"
    /\ options.offset = 150
    /\ Len(requests) = 3
    /\ requests[1].page = 2
    /\ requests[3].page = 4

\* startDate <= t <= endDate, a bound that is absent not constraining t
WithinBounds(t, startDate, endDate) ==
    /\ startDate = undefined \/ startDate <= t
    /\ endDate = undefined \/ t <= endDate

\* C12: without options.limit, a call that was not cut short by a disconnect
\* has issued one request per answer of the source, whatever the date bounds
\* (the requests it issues without them, by C1), and returns the records of
\* the pages received whose timestamp t satisfies startDate <= t <= endDate,
\* in the order received
C12_DateFilter ==
    (/\ fetchPc = "settled"
     /\ outcome.kind = "returned"
     /\ options.limit = undefined
     /\ caught # "TypeError") =>
        /\ Len(requests) = Len(source.answers)
        /\ received = SubSeq(SourcePages, 1, Len(received))
        /\ outcome.value =
               SelectSeq(ParseAll(Concat(received)),
                         LAMBDA tx : WithinBounds(tx.timestamp,
                                                  options.startDate,
                                                  options.endDate))

C12_Witness ==
    /\ ReturnedClean
    /\ options.limit = undefined
    /\ options.startDate # undefined
    /\ options.endDate # undefined
    /\ Len(requests) = 3
    /\ Len(outcome.value) > 0
    /\ Len(outcome.value) < Len(Concat(received))
    /\ \A i \in 1..Len(outcome.value) :
           outcome.value[i].timestamp = options.endDate

----------------------------------------------------------------------------
(* Properties of validateAddress *)

\* osmo followed by exactly 39 characters of [a-z0-9]
IsOsmoAddress(str) ==
    /\ Len(str) = 43
    /\ SubSeq(str, 1, 4) = <<"o", "s", "m", "o">>
    /\ \A i \in 5..Len(str) : str[i] \in LowerAlnum

----------------------------------------------------------------------------
(* Properties of initialize and disconnect *)

\* C6 as stated: among awaited initialize() calls with no disconnect() in
\* between, connect is invoked by the first only: an initialize() call that
\* follows an initialize() call invokes no connect
C6_Original ==
    [][(lastCall \in {"initialize", "connect"} /\ lastCall' = "initialize") =>
           connectCalls' = connectCalls]_vars

\* C6 amended: an initialize() call on a client that has a handle invokes no
\* connect and keeps the handle; while the client holds a handle no connect
\* is invoked and none succeeds, so awaited initialize() calls with no
\* disconnect() in between see at most one connect succeed; an initialize()
\* call that follows another invokes connect only after a connect that failed
C6_Idempotent ==
    /\ [][(lastCall' = "initialize" /\ client # NULL) =>
              UNCHANGED <<client, connectCalls, pendingConnects,
                          established>>]_vars
    /\ [][client # NULL =>
              /\ connectCalls' = connectCalls
              /\ established' = established
              /\ client' \in {client, NULL}]_vars
    /\ [][(/\ lastCall \in {"initialize", "connect"}
           /\ lastCall' = "initialize"
           /\ connectCalls' > connectCalls) =>
              (lastCall = "connect" /\ client = NULL)]_vars

\* an awaited initialize() call has found the handle of the one connect and
\* returned
C6_Witness ==
    /\ lastCall = "initialize"
    /\ client # NULL
    /\ pendingConnects = 0
    /\ connectCalls = 1

----------------------------------------------------------------------------
(* Properties of TransactionParser *)

\* the lists that start with the message first
ListsStartingWith(first) ==
    {Some(<<first>>)} \cup {Some(<<first, other>>) : other \in OtherMessages}

\* C13: the result of parseMessages is the result for every other list with
\* the same first message and for every other address; an empty or null list
\* yields type unknown and no amounts
C13_FirstMessageOnly ==
    (call.method = "parseMessages") =>
        IF call.argument.messages \in {Missing, Some(<<>>)}
        THEN call.result = Parsed("unknown", <<>>)
        ELSE \A others \in ListsStartingWith(call.argument.messages[1][1]),
                addr \in ParserAddresses :
                 parseMessages(others, addr) = call.result

C13_Witness ==
    /\ call.method = "parseMessages"
    /\ call.argument.messages # Missing
    /\ Len(call.argument.messages[1]) = 2
    /\ call.argument.messages[1][1].type = Some(TypeDelegate)
    /\ call.argument.messages[1][2].type = Some(TypeSend)
    /\ call.result.type = "stake"
    /\ Len(call.result.amounts) = 1

\* the patterns and types as C14 states them, in order
ClaimedPatterns ==
    <<[pattern |->
          <<"S", "w", "a", "p", "E", "x", "a", "c", "t", "A", "m", "o", "u",
            "n", "t", "I", "n">>,
       type |-> "swap"],
      [pattern |->
          <<"S", "w", "a", "p", "E", "x", "a", "c", "t", "A", "m", "o", "u",
            "n", "t", "O", "u", "t">>,
       type |-> "swap"],
      [pattern |->
          <<"S", "e", "n", "d">>,
       type |-> "transfer"],
      [pattern |->
          <<"D", "e", "l", "e", "g", "a", "t", "e">>,
       type |-> "stake"],
      [pattern |->
          <<"U", "n", "d", "e", "l", "e", "g", "a", "t", "e">>,
       type |-> "unstake"],
      [pattern |->
          <<"W", "i", "t", "h", "d", "r", "a", "w", "D", "e", "l", "e", "g",
            "a", "t", "o", "r", "R", "e", "w", "a", "r", "d">>,
       type |-> "claim_rewards"],
      [pattern |->
          <<"J", "o", "i", "n", "P", "o", "o", "l">>,
       type |-> "provide_liquidity"],
      [pattern |->
          <<"E", "x", "i", "t", "P", "o", "o", "l">>,
       type |-> "remove_liquidity"],
      [pattern |->
          <<"V", "o", "t", "e">>,
       type |-> "vote"]>>

\* the patterns and types the classifier matches, in order
MatchedPatterns ==
    <<[pattern |->
          <<"M", "s", "g", "S", "w", "a", "p", "E", "x", "a", "c", "t", "A",
            "m", "o", "u", "n", "t", "I", "n">>,
       type |-> "swap"],
      [pattern |->
          <<"M", "s", "g", "S", "w", "a", "p", "E", "x", "a", "c", "t", "A",
            "m", "o", "u", "n", "t", "O", "u", "t">>,
       type |-> "swap"],
      [pattern |->
          <<"M", "s", "g", "S", "e", "n", "d">>,
       type |-> "transfer"],
      [pattern |->
          <<"M", "s", "g", "D", "e", "l", "e", "g", "a", "t", "e">>,
       type |-> "stake"],
      [pattern |->
          <<"M", "s", "g", "U", "n", "d", "e", "l", "e", "g", "a", "t", "e">>,
       type |-> "unstake"],
      [pattern |->
          <<"M", "s", "g", "W", "i", "t", "h", "d", "r", "a", "w", "D", "e",
            "l", "e", "g", "a", "t", "o", "r", "R", "e", "w", "a", "r", "d">>,
       type |-> "claim_rewards"],
      [pattern |->
          <<"J", "o", "i", "n", "P", "o", "o", "l">>,
       type |-> "provide_liquidity"],
      [pattern |->
          <<"E", "x", "i", "t", "P", "o", "o", "l">>,
       type |-> "remove_liquidity"],
      [pattern |->
          <<"M", "s", "g", "V", "o", "t", "e">>,
       type |-> "vote"]>>

\* the type of the first pattern of the table contained in the identifier,
\* unknown when none is
Classified(identifier, patterns) ==
    IF \E i \in 1..Len(patterns) : includes(identifier, patterns[i].pattern)
    THEN patterns[CHOOSE i \in 1..Len(patterns) :
                      /\ includes(identifier, patterns[i].pattern)
                      /\ \A j \in 1..(i - 1) :
                             ~includes(identifier, patterns[j].pattern)].type
    ELSE "unknown"

\* the type identifier of the first message of the call: '@type', else
\* typeUrl, else ''
CallIdentifier ==
    LET first == call.argument.messages[1][1]
    IN  IF Truthy(first.type) THEN first.type[1]
        ELSE IF Truthy(first.typeUrl) THEN first.typeUrl[1]
        ELSE <<>>

ClassifiedCall ==
    /\ call.method = "parseMessages"
    /\ call.argument.messages \notin {Missing, Some(<<>>)}
    /\ call.result.kind = "returned"

\* C14 as stated: the first of SwapExactAmountIn, SwapExactAmountOut, Send,
\* Delegate, Undelegate, WithdrawDelegatorReward, JoinPool, ExitPool, Vote
\* contained in the identifier decides the type
C14_Original ==
    ClassifiedCall =>
        call.result.type = Classified(CallIdentifier, ClaimedPatterns)

\* C14 amended: the first of MsgSwapExactAmountIn, MsgSwapExactAmountOut,
\* MsgSend, MsgDelegate, MsgUndelegate, MsgWithdrawDelegatorReward, JoinPool,
\* ExitPool, MsgVote contained in the identifier decides the type; an
\* identifier containing none of them yields unknown
C14_Classifier ==
    ClassifiedCall =>
        call.result.type = Classified(CallIdentifier, MatchedPatterns)

C14_Witness ==
    /\ ClassifiedCall
    /\ CallIdentifier = TypeVoteThenSend
    /\ call.result.type = "transfer"

\* C15: a call whose first message has a recognized type returns normally
\* with that type, whichever of the message's sub-fields are absent
C15_MissingTolerated ==
    (/\ call.method = "parseMessages"
     /\ call.argument.messages \notin {Missing, Some(<<>>)}) =>
        /\ call.result.kind = "returned"
        /\ call.result.type = Classified(CallIdentifier, MatchedPatterns)

\* C16: parseAmount gives the default amount, value 0, denom unknown, symbol
\* UNKNOWN, for a null amount and for an amount object without denom and
\* amount alike
C16_DefaultAmount ==
    (/\ call.method = "parseAmount"
     /\ call.argument \in {Missing, Some(Coin(Missing, Missing))}) =>
        call.result = NoAmount

----------------------------------------------------------------------------
(* Properties of AmountFormatter *)

\* the canonical decimal string of x / 10^d, read off the digits of x: the
\* digits before the last d, then the last d digits without trailing zeros
ExactDecimal(x, d) ==
    LET digits == padStart(x, d + 1)
        whole == SubSeq(digits, 1, Len(digits) - d)
        fraction ==
            TrimTrailingZeros(SubSeq(digits, Len(digits) - d + 1, Len(digits)))
    IN  IF fraction = <<>> THEN whole ELSE whole \o <<".">> \o fraction

\* C17: fromBaseUnits(x, d) is the canonical decimal string of x / 10^d: no
\* trailing zero in the fraction, no decimal point for a multiple of 10^d,
\* and 0 for x = 0
C17_ExactAndCanonical ==
    (call.method = "fromBaseUnits") =>
        call.result =
            ExactDecimal(call.argument.baseUnits, call.argument.decimals)

\* C18: toBaseUnits(fromBaseUnits(x, d), d) is x
C18_RoundTrip ==
    (call.method = "toBaseUnits") => call.result = call.argument.baseUnits

----------------------------------------------------------------------------
(* Properties of the transaction status and of getTransactionDetails *)

\* the status the ledger's result code stands for
StatusOf(code) == IF code = 0 THEN "success" ELSE "failed"

\* the transaction t is the record of its hash among records, the records
\* received in order, whose hashes count from 1; t has the status of that
\* record's code
StatusFromRecord(t, records) ==
    /\ t.hash \in 1..Len(records)
    /\ records[t.hash].hash = t.hash
    /\ t.status = StatusOf(records[t.hash].code)

\* C19: every transaction fetchTransactions has collected or returned, and
\* the transaction getTransactionDetails returns, has the status of its
\* record's code, success for 0 and failed otherwise, and never pending
C19_StatusFromCode ==
    LET records == Concat(received)
    IN  /\ \A i \in 1..Len(allTransactions) :
               StatusFromRecord(allTransactions[i], records)
        /\ (outcome.kind = "returned") =>
               \A i \in 1..Len(outcome.value) :
                   /\ StatusFromRecord(outcome.value[i], records)
                   /\ outcome.value[i].status # "pending"
        /\ (call.method = "getTransactionDetails"
                /\ call.result.kind = "returned") =>
               /\ call.result.value.status = StatusOf(call.tx[1].code)
               /\ call.result.value.status # "pending"

C19_Witness ==
    /\ outcome.kind = "returned"
    /\ \E i, j \in 1..Len(outcome.value) :
           /\ outcome.value[i].status = "success"
           /\ outcome.value[j].status = "failed"

DetailsStarted ==
    call.method = "none" /\ call'.method = "getTransactionDetails"

DetailsAnswered ==
    /\ call.method = "getTransactionDetails"
    /\ call.pc = "getTx"
    /\ call'.method = "getTransactionDetails"
    /\ call'.answer = "resolved"

\* C20: a getTransactionDetails call made without a handle rejects with
\* 'Client not initialized' and issues no getTx request; a call whose getTx
\* resolves to no record rejects with 'Transaction not found: ' and the hash;
\* a call whose getTx resolves to a record returns the normalized transaction
\* with the record's height, gasUsed, gasWanted, rawLog and messages
C20_Details ==
    [][/\ (DetailsStarted /\ client = NULL) =>
              /\ call'.pc = "settled"
              /\ call'.result = Thrown(NotInitializedMessage)
              /\ call'.getTx = <<>>
       /\ (DetailsAnswered /\ call'.tx = Missing) =>
              call'.result =
                  Thrown("Transaction not found: " \o call.argument)
       /\ (DetailsAnswered /\ call'.tx # Missing) =>
              /\ call'.result.kind = "returned"
              /\ call'.result.value.hash = call'.tx[1].hash
              /\ call'.result.value.timestamp
                     = call'.tx[1].height * BlockInterval
              /\ call'.result.value.status = StatusOf(call'.tx[1].code)
              /\ call'.result.value.blockHeight = call'.tx[1].height
              /\ call'.result.value.gasUsed = call'.tx[1].gasUsed
              /\ call'.result.value.gasWanted = call'.tx[1].gasWanted
              /\ call'.result.value.rawLog = call'.tx[1].rawLog
              /\ call'.result.value.messages = call'.tx[1].messages]_vars

----------------------------------------------------------------------------
(* Claims about CSVExporter *)

\* the transactions of the export that was made, with the row of each
ExportedRows ==
    IF call.method = "exportToAwakenTax"
    THEN {[tx |-> call.argument[i], row |-> call.rows[i]] :
             i \in 1..Len(call.argument)}
    ELSE {}

\* the Buy side and the Sell side of a row, as amount and currency
BuySide(row) == <<row["Buy Amount"], row["Buy Currency"]>>

SellSide(row) == <<row["Sell Amount"], row["Sell Currency"]>>

SideOf(amount) == <<amount.value, amount.symbol>>

EmptySide == <<(<<>>), (<<>>)>>

\* C21: a swap maps to a row of Type 'Trade'; with two or more amounts
\* amounts[0] fills the Sell side and amounts[1] the Buy side, with exactly
\* one amount only the Sell side is filled, with none both sides are empty;
\* Fee Amount and Fee Currency come from the fee and Exchange is 'Osmosis'
C21_SwapRow ==
    \A e \in ExportedRows :
        e.tx.type = "swap" =>
            /\ e.row["Type"] = <<"T", "r", "a", "d", "e">>
            /\ e.row["Fee Amount"] = e.tx.fee.value
            /\ e.row["Fee Currency"] = e.tx.fee.symbol
            /\ e.row["Exchange"] = <<"O", "s", "m", "o", "s", "i", "s">>
            /\ Len(e.tx.amounts) >= 2 =>
                   /\ SellSide(e.row) = SideOf(e.tx.amounts[1])
                   /\ BuySide(e.row) = SideOf(e.tx.amounts[2])
            /\ Len(e.tx.amounts) = 1 =>
                   /\ SellSide(e.row) = SideOf(e.tx.amounts[1])
                   /\ BuySide(e.row) = EmptySide
            /\ Len(e.tx.amounts) = 0 =>
                   /\ SellSide(e.row) = EmptySide
                   /\ BuySide(e.row) = EmptySide

\* a swap of 10 OSMO for 5 ATOM with fee 0.005 OSMO has been exported as
\* Sell 10 OSMO, Buy 5 ATOM, Fee 0.005 OSMO
C21_Witness ==
    \E e \in ExportedRows :
        /\ e.tx.type = "swap"
        /\ Len(e.tx.amounts) = 2
        /\ SideOf(e.tx.amounts[1]) = <<(<<"1", "0">>), (<<"O", "S", "M", "O">>)>>
        /\ SideOf(e.tx.amounts[2]) = <<(<<"5">>), (<<"A", "T", "O", "M">>)>>
        /\ SideOf(e.tx.fee) =
               <<(<<"0", ".", "0", "0", "5">>), (<<"O", "S", "M", "O">>)>>
        /\ SellSide(e.row) = <<(<<"1", "0">>), (<<"O", "S", "M", "O">>)>>
        /\ BuySide(e.row) = <<(<<"5">>), (<<"A", "T", "O", "M">>)>>
        /\ e.row["Fee Amount"] = <<"0", ".", "0", "0", "5">>
        /\ e.row["Fee Currency"] = <<"O", "S", "M", "O">>
        /\ e.row["Type"] = <<"T", "r", "a", "d", "e">>
        /\ e.row["Exchange"] = <<"O", "s", "m", "o", "s", "i", "s">>

\* the first amount of a transaction as a side of the row, the empty side
\* when the transaction has no amount
FirstSide(tx) ==
    IF Len(tx.amounts) > 0 THEN SideOf(tx.amounts[1]) ELSE EmptySide

\* C22: transfer and stake put their first amount on the Sell side only,
\* unstake and claim_rewards put their first amount on the Buy side only,
\* vote and unknown populate no Buy or Sell field whatever amounts the
\* transaction carries; later amounts are ignored and a field that is not
\* set is the empty string
C22_SideByType ==
    \A e \in ExportedRows :
        /\ e.tx.type \in {"transfer", "stake"} =>
               /\ SellSide(e.row) = FirstSide(e.tx)
               /\ BuySide(e.row) = EmptySide
        /\ e.tx.type \in {"unstake", "claim_rewards"} =>
               /\ BuySide(e.row) = FirstSide(e.tx)
               /\ SellSide(e.row) = EmptySide
        /\ e.tx.type \in {"vote", "unknown"} =>
               /\ BuySide(e.row) = EmptySide
               /\ SellSide(e.row) = EmptySide

\* a vote that carries two different amounts has been exported with both
\* sides empty
C22_Witness ==
    \E e \in ExportedRows :
        /\ e.tx.type = "vote"
        /\ Len(e.tx.amounts) >= 2
        /\ e.tx.amounts[1] # e.tx.amounts[2]
        /\ BuySide(e.row) = EmptySide
        /\ SellSide(e.row) = EmptySide

\* the strings of a list written one after the other with '+' between them
RECURSIVE PlusSeparated(_)
PlusSeparated(strings) ==
    IF Len(strings) = 0 THEN <<>>
    ELSE IF Len(strings) = 1 THEN strings[1]
    ELSE PlusSeparated(SubSeq(strings, 1, Len(strings) - 1))
             \o <<"+">> \o strings[Len(strings)]

\* all the amounts of a transaction as one side of the row
CombinedSide(tx) ==
    <<PlusSeparated([i \in 1..Len(tx.amounts) |-> tx.amounts[i].value]),
      PlusSeparated([i \in 1..Len(tx.amounts) |-> tx.amounts[i].symbol])>>

\* C23: a provide_liquidity transaction yields Type 'Trade' with Sell Amount
\* all amount values joined by '+' and Sell Currency all symbols joined by
\* '+', in amount order, and an empty Buy side; remove_liquidity fills the
\* Buy side from all amounts in the same way and leaves the Sell side empty
C23_LiquidityRow ==
    \A e \in ExportedRows :
        /\ e.tx.type = "provide_liquidity" =>
               /\ e.row["Type"] = <<"T", "r", "a", "d", "e">>
               /\ SellSide(e.row) = CombinedSide(e.tx)
               /\ BuySide(e.row) = EmptySide
        /\ e.tx.type = "remove_liquidity" =>
               /\ e.row["Type"] = <<"T", "r", "a", "d", "e">>
               /\ BuySide(e.row) = CombinedSide(e.tx)
               /\ SellSide(e.row) = EmptySide

\* 10 OSMO, 5 ATOM and 10 OSMO have been provided as liquidity and exported
\* as Sell 10+5+10 of OSMO+ATOM+OSMO
C23_Witness ==
    \E e \in ExportedRows :
        /\ e.tx.type = "provide_liquidity"
        /\ e.row["Sell Amount"] = <<"1", "0", "+", "5", "+", "1", "0">>
        /\ e.row["Sell Currency"] =
               <<"O", "S", "M", "O", "+", "A", "T", "O", "M", "+",
                 "O", "S", "M", "O">>
        /\ BuySide(e.row) = EmptySide

\* the columns of the report, in order, each with the key of its field
Columns ==
    << [key |-> "Date", text |-> <<"D", "a", "t", "e">>],
       [key |-> "Type", text |-> <<"T", "y", "p", "e">>],
       [key |-> "Buy Amount",
        text |-> <<"B", "u", "y", " ", "A", "m", "o", "u", "n", "t">>],
       [key |-> "Buy Currency",
        text |-> <<"B", "u", "y", " ", "C", "u", "r", "r", "e", "n", "c",
                   "y">>],
       [key |-> "Sell Amount",
        text |-> <<"S", "e", "l", "l", " ", "A", "m", "o", "u", "n", "t">>],
       [key |-> "Sell Currency",
        text |-> <<"S", "e", "l", "l", " ", "C", "u", "r", "r", "e", "n", "c",
                   "y">>],
       [key |-> "Fee Amount",
        text |-> <<"F", "e", "e", " ", "A", "m", "o", "u", "n", "t">>],
       [key |-> "Fee Currency",
        text |-> <<"F", "e", "e", " ", "C", "u", "r", "r", "e", "n", "c",
                   "y">>],
       [key |-> "Exchange", text |-> <<"E", "x", "c", "h", "a", "n", "g", "e">>],
       [key |-> "Transaction ID",
        text |-> <<"T", "r", "a", "n", "s", "a", "c", "t", "i", "o", "n", " ",
                   "I", "D">>] >>

\* the k-th smallest element of a set of integers
Kth(set, k) == CHOOSE p \in set : Cardinality({q \in set : q < p}) = k - 1

\* a document split into fields as a reader of delimited text splits it: a
\* comma or a newline outside double quotes ends a field, and the newline
\* ends the record too
FieldsOf(doc) ==
    LET quotes == {i \in 1..Len(doc) : doc[i] = "\""}
        Outside(i) == Cardinality({q \in quotes : q < i}) % 2 = 0
        ends == {i \in 1..Len(doc) : doc[i] \in {",", "\n"} /\ Outside(i)}
                    \cup {Len(doc) + 1}
    IN  [k \in 1..Cardinality(ends) |->
            LET to == Kth(ends, k)
                from == IF k = 1 THEN 0 ELSE Kth(ends, k - 1)
            IN  [text |-> SubSeq(doc, from + 1, to - 1),
                 endsRecord |-> to = Len(doc) + 1 \/ doc[to] = "\n"]]

\* the value of a field of the document: the text between the outer quotes
\* with each doubled quote read as one, or the text itself when unquoted
ValueOf(text) ==
    IF Len(text) >= 2 /\ text[1] = "\"" /\ text[Len(text)] = "\""
    THEN LET inner == SubSeq(text, 2, Len(text) - 1)
             kept == {j \in 1..Len(inner) :
                         \/ inner[j] # "\""
                         \/ Cardinality({q \in 1..j : inner[q] = "\""}) % 2 = 1}
         IN  [k \in 1..Cardinality(kept) |-> inner[Kth(kept, k)]]
    ELSE text

\* a value as the claim says it is emitted
Emitted(v) ==
    LET Place(i) == i + Cardinality({q \in 1..(i - 1) : v[q] = "\""})
        doubled ==
            [k \in 1..(Len(v) + Cardinality({q \in 1..Len(v) : v[q] = "\""})) |->
                IF \E i \in 1..Len(v) : Place(i) = k
                THEN v[CHOOSE i \in 1..Len(v) : Place(i) = k]
                ELSE "\""]
    IN  IF \E i \in 1..Len(v) : v[i] \in {",", "\"", "\n"}
        THEN <<"\"">> \o doubled \o <<"\"">>
        ELSE v

\* the values the export that was made had to write, record after record:
\* the column titles, then the fields of each row in column order
WrittenValues ==
    [k \in 1..(10 * (Len(call.rows) + 1)) |->
        LET record == (k - 1) \div 10
            column == ((k - 1) % 10) + 1
        IN  IF record = 0 THEN Columns[column].text
            ELSE call.rows[record][Columns[column].key]]

\* C24: a field value that contains a comma, a double quote or a newline is
\* emitted wrapped in double quotes with each of its double quotes doubled,
\* any other value is emitted unchanged and unquoted, and splitting the
\* document back into fields recovers each value
C24_FieldEncoding ==
    call.method = "exportToAwakenTax" =>
        LET fields == FieldsOf(call.result)
        IN  /\ Len(fields) = Len(WrittenValues)
            /\ \A k \in 1..Len(fields) :
                   /\ fields[k].text = Emitted(WrittenValues[k])
                   /\ ValueOf(fields[k].text) = WrittenValues[k]

\* a hash made of a quote, a comma and a newline has been written as a
\* quoted field with the quote doubled
C24_Witness ==
    /\ call.method = "exportToAwakenTax"
    /\ Len(call.argument) = 1
    /\ call.argument[1].hash = <<"\"", ",", "\n">>
    /\ FieldsOf(call.result)[20].text =
           <<"\"", "\"", "\"", ",", "\n", "\"">>

\* the hash 'Contains, comma' has been written as "Contains, comma"
C24_Example ==
    /\ call.method = "exportToAwakenTax"
    /\ Len(call.argument) = 1
    /\ call.argument[1].hash =
           <<"C", "o", "n", "t", "a", "i", "n", "s", ",", " ",
             "c", "o", "m", "m", "a">>
    /\ FieldsOf(call.result)[20].text =
           <<"\"", "C", "o", "n", "t", "a", "i", "n", "s", ",", " ",
             "c", "o", "m", "m", "a", "\"">>

\* C25: for N transactions the document is the header record followed by
\* exactly N data records, one per transaction in input order, separated by
\* single newlines with no trailing newline; every record has exactly the 10
\* fields Date, Type, Buy Amount, Buy Currency, Sell Amount, Sell Currency,
\* Fee Amount, Fee Currency, Exchange, Transaction ID in that order, and
\* Transaction ID is the hash of the transaction
C25_Document ==
    call.method = "exportToAwakenTax" =>
        LET fields == FieldsOf(call.result)
            N == Len(call.argument)
        IN  /\ Len(Columns) = 10
            /\ Len(fields) = 10 * (N + 1)
            /\ \A k \in 1..Len(fields) : fields[k].endsRecord <=> k % 10 = 0
            /\ \A c \in 1..10 : fields[c].text = Columns[c].text
            /\ \A i \in 1..N :
                   /\ \A c \in 1..10 :
                          ValueOf(fields[10 * i + c].text) =
                              call.rows[i][Columns[c].key]
                   /\ ValueOf(fields[10 * i + 1].text) =
                          toISOString(call.argument[i].timestamp)
                   /\ ValueOf(fields[10 * i + 10].text) = call.argument[i].hash

\* two transactions with different hashes, the second with a comma in its
\* hash, have been exported as three records
C25_Witness ==
    /\ call.method = "exportToAwakenTax"
    /\ Len(call.argument) = 2
    /\ call.argument[1].hash = <<"A", "B", "C", "1", "2", "3">>
    /\ call.argument[2].hash = <<"D", ",", "E">>
    /\ Cardinality({k \in 1..Len(FieldsOf(call.result)) :
                       FieldsOf(call.result)[k].endsRecord}) = 3

----------------------------------------------------------------------------
(* Claims about calls that overlap *)

\* C26: for any interleaving of initialize() calls, a second call made while
\* the connect of the first is still pending invokes no connect, and no
\* handle that was established is lost: each is the one the client holds or
\* has had its disconnect() invoked
C26_SingleConnect ==
    /\ [][(/\ lastCall = "initialize"
           /\ pendingConnects > 0
           /\ lastCall' = "initialize") =>
              connectCalls' = connectCalls]_vars
    /\ [](\A h \in 1..established :
              h = client \/ handleDisconnects[h] > 0)

\* disconnect() has run since the running fetchTransactions call issued its
\* first page request: the handle of that request has been disconnected
DisconnectedDuringFetch ==
    /\ Len(requests) > 0
    /\ handleDisconnects[requests[1].handle] > 0

\* the call does not reject and returns what its record loop has pushed
ResolvesWithAccumulated ==
    fetchPc = "settled" => outcome = Returned(Accumulated(received, options))

\* C27 as stated: when disconnect() runs while the call is suspended on a
\* page request, the call resolves without rejecting with the records
\* accumulated so far and issues no page request after the disconnect: all
\* its requests went to the handle of the first
C27_Original ==
    DisconnectedDuringFetch =>
        /\ ResolvesWithAccumulated
        /\ \A i \in 1..Len(requests) : requests[i].handle = requests[1].handle

\* C27 amended: when disconnect() runs while the call is suspended on a page
\* request, the call resolves without rejecting with the records accumulated
\* so far; it issues no page request on a handle that has been disconnected
\* and none while the client has no handle, so a later request is issued only
\* on a handle that initialize() has established since
C27_AfterDisconnect ==
    /\ [](DisconnectedDuringFetch => ResolvesWithAccumulated)
    /\ [][Len(requests') > Len(requests) =>
              /\ client' # NULL
              /\ Last(requests').handle = client'
              /\ handleDisconnects'[client'] = 0]_vars

\* disconnect() ran while the call was suspended and the client got no new
\* handle; the pending request resolved to a full page and the call returned
\* its records without another request
C27_Witness ==
    /\ DisconnectedDuringFetch
    /\ client = NULL
    /\ established = 1
    /\ caught = "TypeError"
    /\ outcome.kind = "returned"
    /\ Len(outcome.value) > 0
    /\ Len(requests) = Len(received)

\* C28: against a source that holds finitely many records and answers or
\* fails every page request, a fetchTransactions call that has issued a page
\* request eventually settles; each further request asks for the page after
\* the one before, and the call issues no more requests than the source has
\* pages to answer with up to its last, partial or empty or failed, one
C28_Terminates ==
    /\ (fetchPc = "searchTx") ~> (fetchPc = "settled")
    /\ [][(Len(requests) > 0 /\ Len(requests') > Len(requests)) =>
              Last(requests').page = Last(requests).page + 1]_vars
    /\ [](Len(requests) <= Len(source.answers))

\* a call has settled after as many full pages as a source holds and one
\* more request
C28_Witness ==
    /\ fetchPc = "settled"
    /\ outcome.kind = "returned"
    /\ Len(requests) = MaxFullPages + 1
    /\ Len(received) = MaxFullPages + 1

----------------------------------------------------------------------------
(* Claims about WalletManager *)

\* the entries of the saved-wallet store, as stored
Stored(item) == IF item = Missing THEN <<>> ELSE item[1]

\* the positions of the entries with an address
PositionsOf(entries, addr) ==
    {i \in 1..Len(entries) : entries[i].address = addr}

\* a step that is a call of the method which returned without throwing
Returns(method) ==
    /\ walletCall'.method = method
    /\ ~walletCall'.threw

\* C29: the store holds at most one entry per address; saveWallet on a saved
\* address replaces the label and lastViewed of its entry in place and keeps
\* its addedAt and its position; removeWallet deletes exactly the entries
\* with the address; updateLabel and updateLastViewed on an address that is
\* not saved leave the store unchanged; a call that throws stores nothing
C29_OneEntryPerAddress ==
    /\ [](\A i, j \in 1..Len(Stored(storage)) :
              Stored(storage)[i].address = Stored(storage)[j].address => i = j)
    /\ [][LET old == Stored(storage)
              new == Stored(storage')
              addr == walletCall'.address
          IN  /\ (Returns("saveWallet") /\ PositionsOf(old, addr) # {}) =>
                     /\ Len(new) = Len(old)
                     /\ \A i \in 1..Len(old) :
                            IF old[i].address = addr
                            THEN /\ new[i].address = addr
                                 /\ new[i].label = walletCall'.label
                                 /\ new[i].addedAt = old[i].addedAt
                                 /\ new[i].lastViewed = toISOString(now')
                            ELSE new[i] = old[i]
              /\ (Returns("saveWallet") /\ PositionsOf(old, addr) = {}) =>
                     /\ Len(new) = Len(old) + 1
                     /\ SubSeq(new, 1, Len(old)) = old
                     /\ new[Len(new)].address = addr
                     /\ new[Len(new)].label = walletCall'.label
              /\ Returns("removeWallet") =>
                     /\ PositionsOf(new, addr) = {}
                     /\ Len(new) = Len(old) - Cardinality(PositionsOf(old, addr))
                     /\ \A i \in 1..Len(old) :
                            old[i].address # addr =>
                                new[i - Cardinality({j \in PositionsOf(old, addr) :
                                                       j < i})] = old[i]
              /\ (/\ walletCall'.method \in {"updateLabel", "updateLastViewed"}
                  /\ PositionsOf(old, addr) = {}) =>
                     storage' = storage
              /\ walletCall'.threw => storage' = storage]_vars

\* saveWallet on the first of two saved addresses has returned: the entry
\* is still first, with the label of the call, the addedAt it had before the
\* second entry was added and a lastViewed after it
C29_Witness ==
    /\ walletCall.method = "saveWallet"
    /\ ~walletCall.threw
    /\ Len(Stored(storage)) = 2
    /\ Stored(storage)[1].address = walletCall.address
    /\ Stored(storage)[1].label = walletCall.label
    /\ Stored(storage)[1].addedAt = toISOString(0)
    /\ Stored(storage)[2].addedAt = toISOString(1)
    /\ Stored(storage)[1].lastViewed = toISOString(2)

----------------------------------------------------------------------------
(* Claims about WalletInput *)

\* the validation state that agrees with a value of the input
StateFor(str) ==
    IF trim(str) = <<>> THEN "idle"
    ELSE IF IsOsmoAddress(trim(str)) THEN "valid"
    ELSE "invalid"

\* C30: once every pending debounce timer has fired, the validation state
\* agrees with the current value of the input: 'idle' when the trimmed value
\* is empty, 'valid' when it matches the address pattern, 'invalid' otherwise
C30_SettledAgrees ==
    timers = <<>> => validationState = StateFor(inputValue)

====
